---------------------------- MODULE Spec2Model ----------------------------
(***************************************************************************)
(* A model of garminexport: the retry engine (garminexport/retryer.py),    *)
(* the file-name convention, the reconciliation function need_backup and   *)
(* the download orchestrator (garminexport/backup.py), and the backup run  *)
(* (garminexport/incremental_backup.py), and the session of the client     *)
(* (garminexport/garminclient.py).                                         *)
(*                                                                         *)
(* The specifications share the variables:                                 *)
(*   SpecReconcile  need_backup applied to bounded directories and ledgers *)
(*   SpecRetry      one Retryer.call, one loop iteration per step          *)
(*   SpecCalls      two calls of one Retryer, interleaved                  *)
(*   SpecStrategies the stop and delay strategies applied on their own     *)
(*   SpecNames      export_filename applied to pairs of activities         *)
(*   SpecWindow     the filtering of missing activities by start date      *)
(*   SpecClient     the life cycle of one GarminClient                     *)
(*   SpecTicket     _extract_auth_ticket_url applied to login responses    *)
(*   SpecUpload     one upload_activity with its polls for completion      *)
(*   SpecBackoff    one Retryer.call with the strategies of the polling    *)
(*   SpecEquiv      two Retryers that differ in the error strategy only    *)
(*   SpecFair       one backup run whose steps are taken fairly            *)
(*   Spec           a sequence of incremental backup runs                  *)
(***************************************************************************)
EXTENDS Integers, Sequences, FiniteSets, TLC

VARIABLES
    os_name,      \* os.name of the host: "posix" or "nt"
    files,        \* names in the backup directory (os.listdir)
    partial,      \* names of files that were opened for writing but not finished
    ledger,       \* content of <backup_dir>/.not_found: a sequence of lines
    activities,   \* the activities handed to need_backup / listed by the client
    formats,      \* the requested export formats
    missing,      \* the value returned by need_backup
    run,          \* the locals of the running incremental_backup
    dl,           \* the running download: its activity, its format, what it did
    settled,      \* activities found fully backed up by some reconciliation
    retryer,      \* the Retryer: its predicate and its three strategies
    function,     \* the operation handed to Retryer.call, with its own state
    call,         \* the locals of the running Retryer.call and what it did
    hist,         \* what the operation did during the call (observation only)
    fin,          \* the arguments of a function applied on its own
    fout,         \* the value such a function returned
    client,       \* the GarminClient: its session, and the sessions it used
    pc,           \* the position of the program
    mode          \* which specification drives the state

vars == <<os_name, files, partial, ledger, activities, formats, missing, run, dl,
          settled, retryer, function, call, hist, fin, fout, client, pc, mode>>

dirVars == <<os_name, files, partial, ledger, activities, formats, missing>>
runVars == <<run, dl, settled>>
backupVars == <<dirVars, runVars>>
retryVars == <<retryer, function, call, hist>>
funVars == <<fin, fout>>

(***************************************************************************)
(* Bounds of the model.                                                    *)
(***************************************************************************)
MaxDirEntries == 2     \* files plus ledger lines placed by the environment
MaxAttempts == 22      \* attempts after which a call is followed no further
MaxRetriesBound == 2   \* the largest max_retries of a MaxRetriesStopStrategy
MaxFails == 9          \* the most failures of a FailNTimesThenReturn
MaxArg == 10           \* the largest attempt count handed to a strategy alone
MaxInitialDelay == 3   \* the largest initial_delay of a backoff strategy applied alone
MaxCallAttempts == 4   \* attempts followed of each of two calls on one Retryer
MaxRuns == 2           \* backup runs on one directory
MaxRunRetries == 1     \* the largest max_retries of a backup run

(***************************************************************************)
(* Sample data.                                                            *)
(***************************************************************************)
\* datetime values; tz is the utc offset <<sign, hours, minutes>>, <<>> when naive
t1 == [year |-> 2015, month |-> 2, day |-> 17, hour |-> 5, minute |-> 45, second |-> 0,
       tz |-> <<"+", 0, 0>>]
t2 == [year |-> 2015, month |-> 2, day |-> 18, hour |-> 6, minute |-> 10, second |-> 30,
       tz |-> <<>>]

a1 == <<1, t1>>
a2 == <<2, t2>>
SampleActivities == {a1, a2}

Range(s) == {s[i] : i \in DOMAIN s}

RECURSIVE Concat(_)
\* str.format / "+" on strings: the concatenation of the pieces
Concat(s) == IF s = <<>> THEN "" ELSE Head(s) \o Concat(Tail(s))

(***************************************************************************)
(* backup.py: formats, suffixes, the ledger's name.                        *)
(***************************************************************************)
export_formats == <<"json_summary", "json_details", "gpx", "tcx", "fit">>

format_suffix ==
    [json_summary |-> "_summary.json",
     json_details |-> "_details.json",
     gpx |-> ".gpx",
     tcx |-> ".tcx",
     fit |-> ".fit"]

not_found_file == ".not_found"

RECURSIVE zfill(_, _)
\* str.zfill(width)
zfill(str, width) == IF Len(str) >= width THEN str ELSE zfill("0" \o str, width)

\* a number in decimal, zero-padded to a width ("%04d", "%02d")
pad(n, width) == zfill(ToString(n), width)

\* datetime.isoformat(): YYYY-MM-DDTHH:MM:SS[+HH:MM], as pieces with every
\* colon a piece of its own
isoformat(t) ==
    <<pad(t.year, 4), "-", pad(t.month, 2), "-", pad(t.day, 2), "T",
      pad(t.hour, 2), ":", pad(t.minute, 2), ":", pad(t.second, 2)>>
        \o (IF t.tz = <<>> THEN <<>>
            ELSE <<t.tz[1], pad(t.tz[2], 2), ":", pad(t.tz[3], 2)>>)

\* str.replace(old, new) for a one-character old
replace(pieces, old, new) ==
    [i \in DOMAIN pieces |-> IF pieces[i] = old THEN new ELSE pieces[i]]

\* export_filename with every colon replaced whatever the host
export_filename_always_replace(activity, export_format) ==
    Concat(replace(isoformat(activity[2]) \o <<"_", ToString(activity[1]),
                                               format_suffix[export_format]>>,
                   ":", "_"))

\* export_filename without the activity id
export_filename_no_id(activity, export_format) ==
    Concat(isoformat(activity[2]) \o <<format_suffix[export_format]>>)

export_filename(activity, export_format) ==
    LET fn == isoformat(activity[2])
                \o <<"_", ToString(activity[1]), format_suffix[export_format]>>
    IN  Concat(IF os_name = "nt" THEN replace(fn, ":", "_") ELSE fn)

(***************************************************************************)
(* The ledger file: lines as written by download, read by                  *)
(* _not_found_activities.                                                  *)
(***************************************************************************)
Whitespace == {" ", "\t", "\n"}

RECURSIVE lstrip(_)
lstrip(line) ==
    IF line # <<>> /\ Head(line) \in Whitespace THEN lstrip(Tail(line)) ELSE line

RECURSIVE rstrip(_)
rstrip(line) ==
    IF line # <<>> /\ line[Len(line)] \in Whitespace
    THEN rstrip(SubSeq(line, 1, Len(line) - 1))
    ELSE line

\* str.strip()
strip(line) == Concat(rstrip(lstrip(line)))

\* the line download writes for a file name: os.path.basename(dest) + "\n"
ledger_line(name) == <<name, "\n">>

\* os.listdir(backup_dir)
listdir == files

\* _not_found_activities keeping the lines as read, newline included
_not_found_activities_unstripped ==
    IF not_found_file \in files
    THEN [i \in DOMAIN ledger |-> Concat(ledger[i])]
    ELSE <<>>

\* _not_found_activities reading nothing
_not_found_activities_none == <<>>

_not_found_activities ==
    IF not_found_file \in files
    THEN [i \in DOMAIN ledger |-> strip(ledger[i])]
    ELSE <<>>

(***************************************************************************)
(* need_backup                                                             *)
(***************************************************************************)
\* need_backup returning every activity
need_backup_everything(acts, export_fmts) == acts

\* need_backup returning the activities that miss every format
need_backup_all_missing(acts, export_fmts) ==
    LET backed_up == listdir \cup Range(_not_found_activities)
    IN  {a \in acts : \A f \in export_fmts : export_filename(a, f) \notin backed_up}

need_backup(acts, export_fmts) ==
    LET backed_up == listdir \cup Range(_not_found_activities)
    IN  {activity \in acts :
            LET activity_files == {export_filename(activity, f) : f \in export_fmts}
            IN  \E f \in activity_files : f \notin backed_up}

(***************************************************************************)
(* retryer.py: the strategies.                                             *)
(***************************************************************************)
\* FixedDelayStrategy(delay), delays in seconds
FixedDelayStrategy(delay) == [kind |-> "FixedDelayStrategy", delay |-> delay]

\* NoDelayStrategy() is FixedDelayStrategy(timedelta(seconds=0))
NoDelayStrategy == FixedDelayStrategy(0)

ExponentialBackoffDelayStrategy(initial_delay) ==
    [kind |-> "ExponentialBackoffDelayStrategy", initial_delay |-> initial_delay]

NeverStopStrategy == [kind |-> "NeverStopStrategy"]

MaxRetriesStopStrategy(max_retries) ==
    [kind |-> "MaxRetriesStopStrategy", max_retries |-> max_retries]

SuppressAllErrorStrategy == [kind |-> "SuppressAllErrorStrategy"]

\* a subclass of ErrorStrategy that suppresses the errors of the given types
CustomErrorStrategy(types) == [kind |-> "ErrorStrategy", suppressed |-> types]

\* error_strategy=None
None == [kind |-> "None"]

\* next_delay giving no delay before any attempt was made, whatever the strategy
next_delay_zero_first(delay_strategy, attempts) ==
    IF attempts <= 0
    THEN 0
    ELSE IF delay_strategy.kind = "FixedDelayStrategy"
         THEN delay_strategy.delay
         ELSE delay_strategy.initial_delay * 2 ^ (attempts - 1)

\* next_delay with the backoff capped at a minute
next_delay_capped(delay_strategy, attempts) ==
    IF delay_strategy.kind = "FixedDelayStrategy"
    THEN delay_strategy.delay
    ELSE IF attempts <= 0
         THEN 0
         ELSE LET delay_seconds == delay_strategy.initial_delay * 2 ^ (attempts - 1)
              IN  IF delay_seconds > 60 THEN 60 ELSE delay_seconds

next_delay(delay_strategy, attempts) ==
    IF delay_strategy.kind = "FixedDelayStrategy"
    THEN delay_strategy.delay
    ELSE IF attempts <= 0
         THEN 0
         ELSE delay_strategy.initial_delay * 2 ^ (attempts - 1)

\* should_continue that lets no strategy go on past five attempts
should_continue_capped(stop_strategy, attempts, elapsed_time) ==
    IF stop_strategy.kind = "NeverStopStrategy"
    THEN attempts < 5
    ELSE attempts <= stop_strategy.max_retries

\* should_continue giving up one attempt early
should_continue_early(stop_strategy, attempts, elapsed_time) ==
    IF stop_strategy.kind = "NeverStopStrategy"
    THEN TRUE
    ELSE attempts < stop_strategy.max_retries

\* should_continue that stops once any time has elapsed
should_continue_timed(stop_strategy, attempts, elapsed_time) ==
    IF stop_strategy.kind = "NeverStopStrategy"
    THEN TRUE
    ELSE attempts <= stop_strategy.max_retries /\ elapsed_time = 0

\* should_continue allowing one retry more than max_retries
should_continue_one_more(stop_strategy, attempts, elapsed_time) ==
    IF stop_strategy.kind = "NeverStopStrategy"
    THEN TRUE
    ELSE attempts <= stop_strategy.max_retries + 1

\* should_continue of a strategy that never stops, whatever the strategy
should_continue_always(stop_strategy, attempts, elapsed_time) == TRUE

should_continue(stop_strategy, attempts, elapsed_time) ==
    IF stop_strategy.kind = "NeverStopStrategy"
    THEN TRUE
    ELSE attempts <= stop_strategy.max_retries

\* should_suppress that suppresses nothing
should_suppress_nothing(error_strategy, error) == FALSE

should_suppress(error_strategy, error) ==
    IF error_strategy.kind = "SuppressAllErrorStrategy"
    THEN TRUE
    ELSE error.type \in error_strategy.suppressed

\* the returnval_predicate of a Retryer: the default lambda, or r == value
always_true == [kind |-> "always_true"]
equals(value) == [kind |-> "equals", value |-> value]

\* returnval_predicate=bool, and the integers it is applied to
bool == [kind |-> "bool"]
int(n) == [kind |-> "int", value |-> n]

returnval_predicate(predicate, returnval) ==
    IF predicate.kind = "always_true" THEN TRUE
    ELSE IF predicate.kind = "bool"
         THEN \* None is falsy, an integer is truthy unless it is 0
              returnval.kind = "int" /\ returnval.value # 0
         ELSE returnval = predicate.value

(***************************************************************************)
(* retryer.py: Retryer.call.                                               *)
(***************************************************************************)
RECURSIVE format_from(_, _, _)
\* str.format over a template cut into pieces: "{{" and "}}" are literal
\* braces, each "{}" takes the next positional argument, further arguments
\* are ignored
format_from(template, args, next) ==
    IF template = <<>> THEN <<>>
    ELSE LET piece == Head(template) IN
         IF piece = "{{" THEN <<"{">> \o format_from(Tail(template), args, next)
         ELSE IF piece = "}}" THEN <<"}">> \o format_from(Tail(template), args, next)
         ELSE IF piece = "{}"
              THEN <<args[next]>> \o format_from(Tail(template), args, next + 1)
              ELSE <<piece>> \o format_from(Tail(template), args, next)

format(template, args) == format_from(template, args, 1)

\* '{{}}: gave up after {} failed attempt(s)'
gave_up_template == <<"{{", "}}", ": gave up after ", "{}", " failed attempt(s)">>

\* GaveUpError(message); the message is kept as its pieces
GaveUpError(name, attempts) ==
    [type |-> "GaveUpError",
     message |-> format(gave_up_template, <<name, ToString(attempts)>>)]

\* the locals of a call that has not made an attempt yet
new_call ==
    [attempts |-> 0,
     status |-> "running",      \* running, returned, raised or gave_up
     result |-> 0,              \* the value returned or the error raised
     stop_calls |-> 0,          \* consultations of the stop strategy
     stop_arg |-> 0,            \* attempts given to the last should_continue
     delay_arg |-> 0,           \* attempts given to the last next_delay
     sleeps |-> <<>>]           \* the delays slept, in order

\* call_iteration with the attempt counter kept on the Retryer, shared by
\* the two calls in flight
call_iteration_shared_counter(r, c, name, outcome, elapsed_time) ==
    LET attempts == call[1].attempts + call[2].attempts + 1 IN
    IF outcome.kind = "return" /\ returnval_predicate(r.returnval_predicate, outcome.value)
    THEN [c EXCEPT !.attempts = attempts, !.status = "returned", !.result = outcome.value]
    ELSE IF outcome.kind = "raise"
            /\ (r.error_strategy = None
                \/ ~should_suppress(r.error_strategy, outcome.error))
    THEN [c EXCEPT !.attempts = attempts, !.status = "raised", !.result = outcome.error]
    ELSE IF ~should_continue(r.stop_strategy, attempts, elapsed_time)
    THEN [c EXCEPT !.attempts = attempts, !.status = "gave_up",
                   !.result = GaveUpError(name, attempts),
                   !.stop_calls = @ + 1, !.stop_arg = attempts]
    ELSE [c EXCEPT !.attempts = attempts,
                   !.stop_calls = @ + 1, !.stop_arg = attempts,
                   !.delay_arg = attempts,
                   !.sleeps = Append(@, next_delay(r.delay_strategy, attempts))]

\* call_iteration that consults the stop strategy before the error strategy
call_iteration_stop_first(r, c, name, outcome, elapsed_time) ==
    LET attempts == c.attempts + 1 IN
    IF outcome.kind = "return" /\ returnval_predicate(r.returnval_predicate, outcome.value)
    THEN [c EXCEPT !.attempts = attempts, !.status = "returned", !.result = outcome.value]
    ELSE IF ~should_continue(r.stop_strategy, attempts, elapsed_time)
    THEN [c EXCEPT !.attempts = attempts, !.status = "gave_up",
                   !.result = GaveUpError(name, attempts),
                   !.stop_calls = @ + 1, !.stop_arg = attempts]
    ELSE IF outcome.kind = "raise"
            /\ (r.error_strategy = None
                \/ ~should_suppress(r.error_strategy, outcome.error))
    THEN [c EXCEPT !.attempts = attempts, !.status = "raised", !.result = outcome.error,
                   !.stop_calls = @ + 1, !.stop_arg = attempts]
    ELSE [c EXCEPT !.attempts = attempts,
                   !.stop_calls = @ + 1, !.stop_arg = attempts,
                   !.delay_arg = attempts,
                   !.sleeps = Append(@, next_delay(r.delay_strategy, attempts))]

\* call_iteration that returns whatever the function returns
call_iteration_no_predicate(r, c, name, outcome, elapsed_time) ==
    LET attempts == c.attempts + 1 IN
    IF outcome.kind = "return"
    THEN [c EXCEPT !.attempts = attempts, !.status = "returned", !.result = outcome.value]
    ELSE IF r.error_strategy = None \/ ~should_suppress(r.error_strategy, outcome.error)
    THEN [c EXCEPT !.attempts = attempts, !.status = "raised", !.result = outcome.error]
    ELSE IF ~should_continue(r.stop_strategy, attempts, elapsed_time)
    THEN [c EXCEPT !.attempts = attempts, !.status = "gave_up",
                   !.result = GaveUpError(name, attempts),
                   !.stop_calls = @ + 1, !.stop_arg = attempts]
    ELSE [c EXCEPT !.attempts = attempts,
                   !.stop_calls = @ + 1, !.stop_arg = attempts,
                   !.delay_arg = attempts,
                   !.sleeps = Append(@, next_delay(r.delay_strategy, attempts))]

\* call_iteration that counts the attempt after the strategies were asked,
\* so that they are given the number of earlier attempts
call_iteration_counts_late(r, c, name, outcome, elapsed_time) ==
    LET attempts == c.attempts + 1 IN
    IF outcome.kind = "return" /\ returnval_predicate(r.returnval_predicate, outcome.value)
    THEN [c EXCEPT !.attempts = attempts, !.status = "returned", !.result = outcome.value]
    ELSE IF outcome.kind = "raise"
            /\ (r.error_strategy = None
                \/ ~should_suppress(r.error_strategy, outcome.error))
    THEN [c EXCEPT !.attempts = attempts, !.status = "raised", !.result = outcome.error]
    ELSE IF ~should_continue(r.stop_strategy, c.attempts, elapsed_time)
    THEN [c EXCEPT !.attempts = attempts, !.status = "gave_up",
                   !.result = GaveUpError(name, attempts),
                   !.stop_calls = @ + 1, !.stop_arg = c.attempts]
    ELSE [c EXCEPT !.attempts = attempts,
                   !.stop_calls = @ + 1, !.stop_arg = c.attempts,
                   !.delay_arg = c.attempts,
                   !.sleeps = Append(@, next_delay(r.delay_strategy, c.attempts))]

\* call_iteration that takes error_strategy None for "suppress every error"
call_iteration_none_suppresses(r, c, name, outcome, elapsed_time) ==
    LET attempts == c.attempts + 1 IN
    IF outcome.kind = "return" /\ returnval_predicate(r.returnval_predicate, outcome.value)
    THEN [c EXCEPT !.attempts = attempts, !.status = "returned", !.result = outcome.value]
    ELSE IF outcome.kind = "raise"
            /\ r.error_strategy # None
            /\ ~should_suppress(r.error_strategy, outcome.error)
    THEN [c EXCEPT !.attempts = attempts, !.status = "raised", !.result = outcome.error]
    ELSE IF ~should_continue(r.stop_strategy, attempts, elapsed_time)
    THEN [c EXCEPT !.attempts = attempts, !.status = "gave_up",
                   !.result = GaveUpError(name, attempts),
                   !.stop_calls = @ + 1, !.stop_arg = attempts]
    ELSE [c EXCEPT !.attempts = attempts,
                   !.stop_calls = @ + 1, !.stop_arg = attempts,
                   !.delay_arg = attempts,
                   !.sleeps = Append(@, next_delay(r.delay_strategy, attempts))]

\* one iteration of the while loop of Retryer.call: the attempt, whose
\* outcome is given, and what follows it
call_iteration(r, c, name, outcome, elapsed_time) ==
    LET attempts == c.attempts + 1 IN
    IF outcome.kind = "return" /\ returnval_predicate(r.returnval_predicate, outcome.value)
    THEN \* return returnval
         [c EXCEPT !.attempts = attempts, !.status = "returned", !.result = outcome.value]
    ELSE IF outcome.kind = "raise"
            /\ (r.error_strategy = None
                \/ ~should_suppress(r.error_strategy, outcome.error))
    THEN \* raise e
         [c EXCEPT !.attempts = attempts, !.status = "raised", !.result = outcome.error]
    ELSE IF ~should_continue(r.stop_strategy, attempts, elapsed_time)
    THEN \* raise GaveUpError(...)
         [c EXCEPT !.attempts = attempts, !.status = "gave_up",
                   !.result = GaveUpError(name, attempts),
                   !.stop_calls = @ + 1, !.stop_arg = attempts]
    ELSE \* time.sleep(delay.total_seconds()), then the next iteration
         [c EXCEPT !.attempts = attempts,
                   !.stop_calls = @ + 1, !.stop_arg = attempts,
                   !.delay_arg = attempts,
                   !.sleeps = Append(@, next_delay(r.delay_strategy, attempts))]

(***************************************************************************)
(* The operations of tests/test_retryer.py, and an arbitrary one.          *)
(***************************************************************************)
RuntimeError == [type |-> "RuntimeError", message |-> <<"boom!">>]
IOError == [type |-> "IOError", message |-> <<"timed out">>]
Errors == {RuntimeError, IOError}

returned(value) == [kind |-> "return", value |-> value]
raised(error) == [kind |-> "raise", error |-> error]

\* Counter(): next_value returns 0, 1, 2, ...
Counter == [kind |-> "Counter", name |-> "next_value", called |-> 0, nextval |-> 0]

\* FailNTimesThenReturn(calls_until_success, returnval)
FailNTimesThenReturn(calls_until_success, returnval) ==
    [kind |-> "FailNTimesThenReturn", name |-> "next_value", called |-> 0,
     calls_until_success |-> calls_until_success, returnval |-> returnval]

\* an operation that may return any of two values or raise any error
AnyFunction == [kind |-> "any", name |-> "function", called |-> 0]

(***************************************************************************)
(* garminclient.py: the remote operations, by the outcomes one invocation  *)
(* can have.                                                               *)
(***************************************************************************)
\* a representation of an activity, as returned by the client
Data == [kind |-> "data"]

\* raise Exception(u"failed to fetch ...")
RemoteError == [type |-> "Exception", message |-> <<"failed to fetch">>]

\* the activities of the account
Inventory == SampleActivities

client_function(name) == [kind |-> "client", name |-> name, called |-> 0]

\* the client method download calls for an export format
fetcher ==
    [json_summary |-> "get_activity_summary",
     json_details |-> "get_activity_details",
     gpx |-> "get_activity_gpx",
     tcx |-> "get_activity_tcx",
     fit |-> "get_activity_fit"]

\* response.raise_for_status() on a poll answered with an error status
HTTPError == [type |-> "HTTPError", message |-> <<"Server Error">>]

\* the internalId values Garmin gives to uploaded activities
UploadedIds == {int(3), int(4)}

client_outcomes(name) ==
    IF name = "list_activities"
    THEN {returned(Inventory), raised(RemoteError)}
    ELSE IF name = "_poll_upload_completion"
    THEN \* 201 with a location: the id; 202: None, still processing
         {returned(id) : id \in UploadedIds} \cup {returned(None), raised(HTTPError)}
    ELSE IF name \in {"get_activity_summary", "get_activity_details"}
         THEN {returned(Data), raised(RemoteError)}
         ELSE \* gpx, tcx and fit: None when the activity has no such file
              {returned(Data), returned(None), raised(RemoteError)}

\* the outcomes one invocation of the function can have
outcomes(f) ==
    IF f.kind = "Counter" THEN {returned(f.nextval)}
    ELSE IF f.kind = "FailNTimesThenReturn"
         THEN IF f.called + 1 < f.calls_until_success
              THEN {raised(RuntimeError)}
              ELSE {returned(f.returnval)}
         ELSE IF f.kind = "client"
              THEN client_outcomes(f.name)
              ELSE {returned(0), returned(20)} \cup {raised(e) : e \in Errors}

\* the function's own state after one invocation
invoked(f) ==
    IF f.kind = "Counter"
    THEN [f EXCEPT !.called = @ + 1, !.nextval = @ + 1]
    ELSE [f EXCEPT !.called = @ + 1]

(***************************************************************************)
(* Observation of a call, and the variables a specification leaves idle.   *)
(***************************************************************************)
new_hist ==
    [fails |-> 0,        \* attempts that raised or returned an unsatisfactory value
     ok_at |-> 0,        \* the first invocation that returned a satisfactory value
     error_at |-> 0,     \* the first invocation that raised
     error |-> None,     \* the error it raised
     last |-> None]      \* the outcome of the last invocation

RetryIdle ==
    /\ retryer = None
    /\ function = None
    /\ call = None
    /\ hist = None

FunIdle ==
    /\ fin = None
    /\ fout = None

ClientIdle == client = None

RunIdle ==
    /\ run = None
    /\ dl = None
    /\ settled = {}

DirIdle ==
    /\ os_name = "posix"
    /\ files = {}
    /\ partial = {}
    /\ ledger = <<>>
    /\ activities = {}
    /\ formats = {}
    /\ missing = {}

\* what the operation did, observed beside the call
observe(h, r, f, outcome) ==
    LET ok == outcome.kind = "return"
              /\ returnval_predicate(r.returnval_predicate, outcome.value)
    IN  [h EXCEPT !.fails = IF ok THEN @ ELSE @ + 1,
                  !.ok_at = IF ok /\ @ = 0 THEN f.called + 1 ELSE @,
                  !.error_at = IF outcome.kind = "raise" /\ @ = 0 THEN f.called + 1 ELSE @,
                  !.error = IF outcome.kind = "raise" /\ h.error_at = 0
                            THEN outcome.error ELSE @,
                  !.last = outcome]

(***************************************************************************)
(* backup.py: download.                                                    *)
(***************************************************************************)
LedgerNames == {ledger[i][1] : i \in DOMAIN ledger}

\* the canonical name of (a, f) is a file of the directory or a ledger line
Accounted(a, f) == export_filename(a, f) \in files \cup LedgerNames

\* the order in which download handles the export formats
download_order == <<"json_summary", "json_details", "gpx", "tcx", "fit">>

\* position of a format in the order download handles the formats
FormatPos(f) == CHOOSE i \in DOMAIN download_order : download_order[i] = f

\* the formats download handles inside "with open(not_found_path, mode='a')"
ledger_block == {"gpx", "tcx", "fit"}

\* the position in download_order of the first requested format after a
\* position; 0 when there is none
next_format(after) ==
    LET later == {i \in (after + 1)..Len(download_order) : download_order[i] \in formats}
    IN  IF later = {} THEN 0 ELSE CHOOSE i \in later : \A j \in later : i <= j

\* download reaches "with open(not_found_path, mode='a')" when it leaves
\* position `from` for position `to` without raising
enters_ledger_block(from, to) ==
    /\ from = 0 \/ download_order[from] \notin ledger_block
    /\ to = 0 \/ download_order[to] \in ledger_block

\* os.path.join(backup_dir, name) and os.path.basename(dest)
join(backup_dir, name) == <<backup_dir, name>>
basename(dest) == dest[Len(dest)]

\* what opening and writing a file of the backup directory may do
WriteOutcomes == {"written", "open_failed", "write_failed"}

\* store that lets every failure of json_details out of download
store_details_raises(activity, fmt, c, io) ==
    LET dest == join("backup_dir", export_filename(activity, fmt))
        same == [files |-> files, partial |-> partial, ledger |-> ledger,
                 opened |-> FALSE, wrote |-> FALSE, failed |-> FALSE, raised |-> FALSE]
    IN  IF c.status # "returned"
        THEN [same EXCEPT !.failed = TRUE, !.raised = TRUE]
        ELSE IF fmt \in ledger_block /\ c.result = None
        THEN [same EXCEPT !.ledger = Append(ledger, ledger_line(basename(dest)))]
        ELSE IF io = "open_failed"
        THEN [same EXCEPT !.failed = TRUE, !.raised = TRUE]
        ELSE IF io = "write_failed"
        THEN [same EXCEPT !.files = files \cup {basename(dest)},
                          !.partial = partial \cup {basename(dest)},
                          !.opened = TRUE, !.failed = TRUE, !.raised = TRUE]
        ELSE [same EXCEPT !.files = files \cup {basename(dest)},
                          !.partial = partial \ {basename(dest)},
                          !.opened = TRUE, !.wrote = TRUE]

\* store that treats a missing representation as a failure of the download
store_none_raises(activity, fmt, c, io) ==
    LET dest == join("backup_dir", export_filename(activity, fmt))
        same == [files |-> files, partial |-> partial, ledger |-> ledger,
                 opened |-> FALSE, wrote |-> FALSE, failed |-> FALSE, raised |-> FALSE]
    IN  IF c.status # "returned"
        THEN [same EXCEPT !.failed = TRUE, !.raised = (fmt # "json_details")]
        ELSE IF fmt \in ledger_block /\ c.result = None
        THEN [same EXCEPT !.ledger = Append(ledger, ledger_line(basename(dest))),
                          !.failed = TRUE, !.raised = TRUE]
        ELSE IF io = "open_failed"
        THEN [same EXCEPT !.failed = TRUE, !.raised = (fmt # "json_details")]
        ELSE IF io = "write_failed"
        THEN [same EXCEPT !.files = files \cup {basename(dest)},
                          !.partial = partial \cup {basename(dest)},
                          !.opened = TRUE, !.failed = TRUE,
                          !.raised = (fmt # "json_details")]
        ELSE [same EXCEPT !.files = files \cup {basename(dest)},
                          !.partial = partial \ {basename(dest)},
                          !.opened = TRUE, !.wrote = TRUE]

\* store that logs a failed fetch of any format and goes on
store_fetch_swallowed(activity, fmt, c, io) ==
    LET dest == join("backup_dir", export_filename(activity, fmt))
        same == [files |-> files, partial |-> partial, ledger |-> ledger,
                 opened |-> FALSE, wrote |-> FALSE, failed |-> FALSE, raised |-> FALSE]
    IN  IF c.status # "returned"
        THEN [same EXCEPT !.failed = TRUE]
        ELSE IF fmt \in ledger_block /\ c.result = None
        THEN [same EXCEPT !.ledger = Append(ledger, ledger_line(basename(dest)))]
        ELSE IF io = "open_failed"
        THEN [same EXCEPT !.failed = TRUE, !.raised = (fmt # "json_details")]
        ELSE IF io = "write_failed"
        THEN [same EXCEPT !.files = files \cup {basename(dest)},
                          !.partial = partial \cup {basename(dest)},
                          !.opened = TRUE, !.failed = TRUE,
                          !.raised = (fmt # "json_details")]
        ELSE [same EXCEPT !.files = files \cup {basename(dest)},
                          !.partial = partial \ {basename(dest)},
                          !.opened = TRUE, !.wrote = TRUE]

\* store that logs a failed open or write of any format and goes on
store_write_swallowed(activity, fmt, c, io) ==
    LET dest == join("backup_dir", export_filename(activity, fmt))
        same == [files |-> files, partial |-> partial, ledger |-> ledger,
                 opened |-> FALSE, wrote |-> FALSE, failed |-> FALSE, raised |-> FALSE]
    IN  IF c.status # "returned"
        THEN [same EXCEPT !.failed = TRUE, !.raised = (fmt # "json_details")]
        ELSE IF fmt \in ledger_block /\ c.result = None
        THEN [same EXCEPT !.ledger = Append(ledger, ledger_line(basename(dest)))]
        ELSE IF io = "open_failed"
        THEN [same EXCEPT !.failed = TRUE]
        ELSE IF io = "write_failed"
        THEN [same EXCEPT !.files = files \cup {basename(dest)},
                          !.partial = partial \cup {basename(dest)},
                          !.opened = TRUE, !.failed = TRUE]
        ELSE [same EXCEPT !.files = files \cup {basename(dest)},
                          !.partial = partial \ {basename(dest)},
                          !.opened = TRUE, !.wrote = TRUE]

\* store that writes the ledger anew instead of appending to it
store_ledger_rewritten(activity, fmt, c, io) ==
    LET dest == join("backup_dir", export_filename(activity, fmt))
        same == [files |-> files, partial |-> partial, ledger |-> ledger,
                 opened |-> FALSE, wrote |-> FALSE, failed |-> FALSE, raised |-> FALSE]
    IN  IF c.status # "returned"
        THEN [same EXCEPT !.failed = TRUE, !.raised = (fmt # "json_details")]
        ELSE IF fmt \in ledger_block /\ c.result = None
        THEN [same EXCEPT !.ledger = <<ledger_line(basename(dest))>>]
        ELSE IF io = "open_failed"
        THEN [same EXCEPT !.failed = TRUE, !.raised = (fmt # "json_details")]
        ELSE IF io = "write_failed"
        THEN [same EXCEPT !.files = files \cup {basename(dest)},
                          !.partial = partial \cup {basename(dest)},
                          !.opened = TRUE, !.failed = TRUE,
                          !.raised = (fmt # "json_details")]
        ELSE [same EXCEPT !.files = files \cup {basename(dest)},
                          !.partial = partial \ {basename(dest)},
                          !.opened = TRUE, !.wrote = TRUE]

\* store that leaves out a ledger line whose name the ledger already holds
store_ledger_deduplicated(activity, fmt, c, io) ==
    LET dest == join("backup_dir", export_filename(activity, fmt))
        same == [files |-> files, partial |-> partial, ledger |-> ledger,
                 opened |-> FALSE, wrote |-> FALSE, failed |-> FALSE, raised |-> FALSE]
    IN  IF c.status # "returned"
        THEN [same EXCEPT !.failed = TRUE, !.raised = (fmt # "json_details")]
        ELSE IF fmt \in ledger_block /\ c.result = None
        THEN IF basename(dest) \in LedgerNames
             THEN same
             ELSE [same EXCEPT !.ledger = Append(ledger, ledger_line(basename(dest)))]
        ELSE IF io = "open_failed"
        THEN [same EXCEPT !.failed = TRUE, !.raised = (fmt # "json_details")]
        ELSE IF io = "write_failed"
        THEN [same EXCEPT !.files = files \cup {basename(dest)},
                          !.partial = partial \cup {basename(dest)},
                          !.opened = TRUE, !.failed = TRUE,
                          !.raised = (fmt # "json_details")]
        ELSE [same EXCEPT !.files = files \cup {basename(dest)},
                          !.partial = partial \ {basename(dest)},
                          !.opened = TRUE, !.wrote = TRUE]

\* store that records nothing for a format that is not available
store_none_unrecorded(activity, fmt, c, io) ==
    LET dest == join("backup_dir", export_filename(activity, fmt))
        same == [files |-> files, partial |-> partial, ledger |-> ledger,
                 opened |-> FALSE, wrote |-> FALSE, failed |-> FALSE, raised |-> FALSE]
    IN  IF c.status # "returned"
        THEN [same EXCEPT !.failed = TRUE, !.raised = (fmt # "json_details")]
        ELSE IF fmt \in ledger_block /\ c.result = None
        THEN same
        ELSE IF io = "open_failed"
        THEN [same EXCEPT !.failed = TRUE, !.raised = (fmt # "json_details")]
        ELSE IF io = "write_failed"
        THEN [same EXCEPT !.files = files \cup {basename(dest)},
                          !.partial = partial \cup {basename(dest)},
                          !.opened = TRUE, !.failed = TRUE,
                          !.raised = (fmt # "json_details")]
        ELSE [same EXCEPT !.files = files \cup {basename(dest)},
                          !.partial = partial \ {basename(dest)},
                          !.opened = TRUE, !.wrote = TRUE]

\* store that removes the activity's files when a fetch fails
store_failure_cleans(activity, fmt, c, io) ==
    LET dest == join("backup_dir", export_filename(activity, fmt))
        same == [files |-> files, partial |-> partial, ledger |-> ledger,
                 opened |-> FALSE, wrote |-> FALSE, failed |-> FALSE, raised |-> FALSE]
        own == {export_filename(activity, f) : f \in formats}
    IN  IF c.status # "returned"
        THEN [same EXCEPT !.files = files \ own, !.partial = partial \ own,
                          !.failed = TRUE, !.raised = (fmt # "json_details")]
        ELSE IF fmt \in ledger_block /\ c.result = None
        THEN [same EXCEPT !.ledger = Append(ledger, ledger_line(basename(dest)))]
        ELSE IF io = "open_failed"
        THEN [same EXCEPT !.failed = TRUE, !.raised = (fmt # "json_details")]
        ELSE IF io = "write_failed"
        THEN [same EXCEPT !.files = files \cup {basename(dest)},
                          !.partial = partial \cup {basename(dest)},
                          !.opened = TRUE, !.failed = TRUE,
                          !.raised = (fmt # "json_details")]
        ELSE [same EXCEPT !.files = files \cup {basename(dest)},
                          !.partial = partial \ {basename(dest)},
                          !.opened = TRUE, !.wrote = TRUE]

\* what download does for one export format once retryer.call has ended:
\* the new directory and ledger, whether a file was opened and written, and
\* whether an exception leaves download
store(activity, fmt, c, io) ==
    LET dest == join("backup_dir", export_filename(activity, fmt))
        same == [files |-> files, partial |-> partial, ledger |-> ledger,
                 opened |-> FALSE, wrote |-> FALSE, failed |-> FALSE, raised |-> FALSE]
    IN  IF c.status # "returned"
        THEN \* retryer.call raised; json_details logs the exception and goes on
             [same EXCEPT !.failed = TRUE, !.raised = (fmt # "json_details")]
        ELSE IF fmt \in ledger_block /\ c.result = None
        THEN \* not_found.write(os.path.basename(dest) + "\n")
             [same EXCEPT !.ledger = Append(ledger, ledger_line(basename(dest)))]
        ELSE IF io = "open_failed"
        THEN [same EXCEPT !.failed = TRUE, !.raised = (fmt # "json_details")]
        ELSE IF io = "write_failed"
        THEN \* the file was created or truncated by open, f.write raised
             [same EXCEPT !.files = files \cup {basename(dest)},
                          !.partial = partial \cup {basename(dest)},
                          !.opened = TRUE, !.failed = TRUE,
                          !.raised = (fmt # "json_details")]
        ELSE [same EXCEPT !.files = files \cup {basename(dest)},
                          !.partial = partial \ {basename(dest)},
                          !.opened = TRUE, !.wrote = TRUE]

\* what a download did so far
new_download(activity, pos) ==
    [activity |-> activity,
     pos |-> pos,               \* the position in download_order being handled
     status |-> "running",      \* running, returned or raised
     ledger0 |-> Len(ledger),   \* the length of the ledger when download began
     fetched |-> {},            \* formats for which the client was invoked
     stale |-> {},              \* those whose name was in the directory or ledger then
     got |-> {},                \* formats whose fetch returned a representation
     none |-> {},               \* formats whose fetch returned None
     opened |-> {},             \* formats whose file was opened for writing
     wrote |-> {},              \* formats whose file was written
     failed |-> {}]             \* formats whose fetch or write raised

(***************************************************************************)
(* incremental_backup.py                                                   *)
(***************************************************************************)
\* datetime.date()
date(t) == [year |-> t.year, month |-> t.month, day |-> t.day]

\* d <= e on dates
date_le(d, e) ==
    \/ d.year < e.year
    \/ d.year = e.year /\ d.month < e.month
    \/ d.year = e.year /\ d.month = e.month /\ d.day <= e.day

\* _filter_by_date with both comparisons strict
_filter_by_date_exclusive(from_date, to_date, start) ==
    IF from_date = None /\ to_date = None
    THEN TRUE
    ELSE IF from_date # None /\ to_date # None
    THEN ~date_le(date(start), from_date) /\ ~date_le(to_date, date(start))
    ELSE IF from_date = None
    THEN ~date_le(to_date, date(start))
    ELSE ~date_le(date(start), from_date)

_filter_by_date(from_date, to_date, start) ==
    IF from_date = None /\ to_date = None
    THEN TRUE
    ELSE IF from_date # None /\ to_date # None
    THEN date_le(from_date, date(start)) /\ date_le(date(start), to_date)
    ELSE IF from_date = None
    THEN date_le(date(start), to_date)
    ELSE date_le(from_date, date(start))

\* the filtering of missing_activities by the start dates, when a bound is given
filter_missing_activities(from_date, to_date, missing_activities) ==
    IF from_date # None \/ to_date # None
    THEN {x \in missing_activities : _filter_by_date(from_date, to_date, x[2])}
    ELSE missing_activities

\* the run's Retryer built with error_strategy=None
backup_retryer_unsuppressing(max_retries) ==
    [returnval_predicate |-> always_true,
     delay_strategy |-> ExponentialBackoffDelayStrategy(1),
     stop_strategy |-> MaxRetriesStopStrategy(max_retries),
     error_strategy |-> None]

\* Retryer(delay_strategy=ExponentialBackoffDelayStrategy(initial_delay=1 s),
\*         stop_strategy=MaxRetriesStopStrategy(max_retries))
backup_retryer(max_retries) ==
    [returnval_predicate |-> always_true,
     delay_strategy |-> ExponentialBackoffDelayStrategy(1),
     stop_strategy |-> MaxRetriesStopStrategy(max_retries),
     error_strategy |-> SuppressAllErrorStrategy]

\* the export formats of the runs
BackupFormatSets ==
    {{"gpx", "fit"}, {"json_summary", "tcx"}, {"json_details", "gpx"}}

\* the from_date and to_date of the runs
DateWindows ==
    {[from_date |-> None, to_date |-> None],
     [from_date |-> date(t2), to_date |-> None]}

\* the arguments of incremental_backup that the runs on a directory share,
\* before the first run
no_run(max_retries, w) ==
    [n |-> 0, ignore_errors |-> FALSE, max_retries |-> max_retries,
     from_date |-> w.from_date, to_date |-> w.to_date,
     todo |-> {}, snapshot |-> {}, attempted |-> {},
     reads |-> 0]   \* the times the run read the directory and the ledger

Init ==
    /\ mode = "backup"
    /\ ClientIdle
    /\ pc = "idle"
    /\ os_name = "posix"
    /\ files = {}
    /\ partial = {}
    /\ ledger = <<>>
    /\ activities = {}
    /\ formats \in BackupFormatSets
    /\ missing = {}
    /\ run \in {no_run(max_retries, w) : max_retries \in 0..MaxRunRetries, w \in DateWindows}
    /\ dl = None
    /\ settled = {}
    /\ RetryIdle
    /\ FunIdle

\* incremental_backup up to "retryer.call(client.list_activities)"
RunStart ==
    /\ mode = "backup"
    /\ pc \in {"idle", "done", "raised"}
    /\ run.n < MaxRuns
    /\ \E ignore_errors \in BOOLEAN :
          run' = [run EXCEPT !.n = @ + 1, !.ignore_errors = ignore_errors]
    /\ retryer' = backup_retryer(run.max_retries)
    /\ function' = client_function("list_activities")
    /\ call' = new_call
    /\ hist' = new_hist
    /\ dl' = None
    /\ pc' = "list"
    /\ UNCHANGED <<dirVars, settled, funVars, mode, client>>

\* incremental_backup has returned or raised: its locals are gone
RunOver ==
    /\ run' = [run EXCEPT !.ignore_errors = FALSE, !.todo = {}, !.snapshot = {},
                          !.attempted = {}, !.reads = 0]
    /\ activities' = {}
    /\ missing' = {}
    /\ retryer' = None
    /\ function' = None
    /\ call' = None
    /\ hist' = None

\* retryer.call(client.list_activities) raised: the run ends with the error
RunListFailed ==
    /\ mode = "backup"
    /\ pc = "list"
    /\ call.status \in {"gave_up", "raised"}
    /\ pc' = "raised"
    /\ RunOver
    /\ UNCHANGED <<os_name, files, partial, ledger, formats, dl, settled, funVars, mode, client>>

\* activities = set(...); missing_activities = need_backup(...), filtered by
\* the start dates
RunReconcile ==
    /\ mode = "backup"
    /\ pc = "list"
    /\ call.status = "returned"
    /\ activities' = call.result
    /\ missing' = need_backup(call.result, formats)
    /\ run' = [run EXCEPT
                 !.todo = filter_missing_activities(run.from_date, run.to_date, missing'),
                 !.snapshot = files \cup LedgerNames,
                 !.reads = @ + 1]
    /\ settled' = settled \cup {a \in call.result : \A f \in formats : Accounted(a, f)}
    /\ pc' = "next"
    /\ function' = None
    /\ call' = None
    /\ hist' = None
    /\ UNCHANGED <<os_name, files, partial, ledger, formats, dl, retryer, funVars, mode, client>>

\* the loop over missing_activities has ended
RunEnd ==
    /\ mode = "backup"
    /\ pc = "next"
    /\ run.todo = {}
    /\ pc' = "done"
    /\ RunOver
    /\ dl' = None
    /\ UNCHANGED <<os_name, files, partial, ledger, formats, settled, funVars, mode, client>>

\* the next activity of the loop: download up to its first retryer.call
DownloadStart ==
    /\ mode = "backup"
    /\ pc = "next"
    /\ \E activity \in run.todo :
          LET first == next_format(0) IN
          /\ run' = [run EXCEPT !.todo = @ \ {activity}, !.attempted = @ \cup {activity}]
          /\ dl' = new_download(activity, first)
          /\ files' = IF enters_ledger_block(0, first)
                      THEN files \cup {not_found_file} ELSE files
          /\ function' = client_function(fetcher[download_order[first]])
    /\ call' = new_call
    /\ hist' = new_hist
    /\ pc' = "fetch"
    /\ UNCHANGED <<os_name, partial, ledger, activities, formats, missing, settled,
                   retryer, funVars, mode, client>>

\* the except clause of the loop that raises whatever ignore_errors is
reraises_always(ignore_errors) == TRUE

\* the except clause of the loop over the activities: "if not ignore_errors: raise"
reraises(ignore_errors) == ~ignore_errors

\* retryer.call has ended for the format at hand: download stores the
\* result and goes on to the next requested format, returns or raises; when
\* it raises the run goes on to the next activity or ends with the error
DownloadStore ==
    /\ mode = "backup"
    /\ pc = "fetch"
    /\ call.status # "running"
    /\ \E io \in WriteOutcomes :
          LET fmt == download_order[dl.pos]
              s == store(dl.activity, fmt, call, io)
              to == next_format(dl.pos)
              d == [dl EXCEPT
                      !.got = IF call.status = "returned" /\ call.result # None
                              THEN @ \cup {fmt} ELSE @,
                      !.none = IF call.status = "returned" /\ call.result = None
                               THEN @ \cup {fmt} ELSE @,
                      !.opened = IF s.opened THEN @ \cup {fmt} ELSE @,
                      !.wrote = IF s.wrote THEN @ \cup {fmt} ELSE @,
                      !.failed = IF s.failed THEN @ \cup {fmt} ELSE @]
          IN  /\ partial' = s.partial
              /\ ledger' = s.ledger
              /\ IF s.raised
                 THEN /\ files' = s.files
                      /\ dl' = [d EXCEPT !.status = "raised"]
                      /\ IF ~reraises(run.ignore_errors)
                         THEN /\ pc' = "next"
                              /\ function' = None
                              /\ call' = None
                              /\ hist' = None
                              /\ UNCHANGED <<run, retryer, activities, missing>>
                         ELSE /\ pc' = "raised"
                              /\ RunOver
                 ELSE /\ files' = IF enters_ledger_block(dl.pos, to)
                                  THEN s.files \cup {not_found_file} ELSE s.files
                      /\ UNCHANGED <<run, retryer, activities, missing>>
                      /\ IF to = 0
                         THEN /\ dl' = [d EXCEPT !.status = "returned"]
                              /\ pc' = "next"
                              /\ function' = None
                              /\ call' = None
                              /\ hist' = None
                         ELSE /\ dl' = [d EXCEPT !.pos = to]
                              /\ function' = client_function(fetcher[download_order[to]])
                              /\ call' = new_call
                              /\ hist' = new_hist
                              /\ pc' = "fetch"
    /\ UNCHANGED <<os_name, formats, settled, funVars, mode, client>>

(***************************************************************************)
(* SpecRetry: one Retryer.call, for every Retryer and operation of the     *)
(* bounded sets.                                                           *)
(***************************************************************************)
Predicates == {always_true, equals(20)}

DelayStrategies ==
    {NoDelayStrategy, FixedDelayStrategy(10), ExponentialBackoffDelayStrategy(1)}

StopStrategies ==
    {NeverStopStrategy} \cup {MaxRetriesStopStrategy(n) : n \in 0..MaxRetriesBound}

ErrorStrategies ==
    {None, SuppressAllErrorStrategy,
     CustomErrorStrategy({"RuntimeError"}), CustomErrorStrategy({})}

\* Retryer(): every argument of __init__ at its default
DefaultRetryer ==
    [returnval_predicate |-> always_true,
     delay_strategy |-> NoDelayStrategy,
     stop_strategy |-> NeverStopStrategy,
     error_strategy |-> SuppressAllErrorStrategy]

Retryers ==
    [returnval_predicate : Predicates, delay_strategy : DelayStrategies,
     stop_strategy : StopStrategies, error_strategy : ErrorStrategies]

Functions ==
    {Counter, AnyFunction}
        \cup {FailNTimesThenReturn(k + 1, 7) : k \in 0..MaxFails}

\* elapsed wall-clock seconds the call may read
ElapsedTimes == {0, 5}

RetryInit ==
    /\ mode = "retry"
    /\ ClientIdle
    /\ pc = "call"
    /\ retryer \in Retryers
    /\ function \in Functions
    /\ call = new_call
    /\ hist = new_hist
    /\ DirIdle
    /\ RunIdle
    /\ FunIdle

\* one iteration of the loop of Retryer.call(function), in a call of its own
\* or in a call made by a backup run
RetryerCallIteration ==
    /\ \/ mode = "retry"
       \/ mode = "backup" /\ pc \in {"list", "fetch"}
       \/ mode = "upload" /\ pc = "poll"
    /\ call.status = "running"
    /\ call.attempts < MaxAttempts
    /\ \E outcome \in outcomes(function), elapsed_time \in ElapsedTimes :
          /\ call' = call_iteration(retryer, call, function.name, outcome, elapsed_time)
          /\ hist' = observe(hist, retryer, function, outcome)
    /\ function' = invoked(function)
    /\ dl' = IF mode = "backup" /\ pc = "fetch"
             THEN [dl EXCEPT
                     !.fetched = @ \cup {download_order[dl.pos]},
                     !.stale = IF call.attempts = 0
                                  /\ Accounted(dl.activity, download_order[dl.pos])
                               THEN @ \cup {download_order[dl.pos]} ELSE @]
             ELSE dl
    /\ UNCHANGED <<retryer, dirVars, run, settled, funVars, pc, mode, client>>

RetryNext == RetryerCallIteration

SpecRetry == RetryInit /\ [][RetryNext]_vars

\* the loop runs on until the call ends
SpecRetryFair == SpecRetry /\ WF_vars(RetryNext)

(***************************************************************************)
(* SpecCalls: two calls on one Retryer, their loop iterations interleaved  *)
(* in every order; call, function and hist hold one entry per call.        *)
(***************************************************************************)
CallsRetryers ==
    {DefaultRetryer} \cup {backup_retryer(n) : n \in 0..MaxRetriesBound}

CallsFunctions ==
    {Counter, AnyFunction} \cup {FailNTimesThenReturn(k, 7) : k \in 1..3}

CallsInit ==
    /\ mode = "calls"
    /\ ClientIdle
    /\ pc = "calls"
    /\ retryer \in CallsRetryers
    /\ function \in CallsFunctions \X CallsFunctions
    /\ call = <<new_call, new_call>>
    /\ hist = <<new_hist, new_hist>>
    /\ DirIdle
    /\ RunIdle
    /\ FunIdle

\* one iteration of the loop of either of the two calls
CallsIteration ==
    /\ mode = "calls"
    /\ \E i \in {1, 2} :
          /\ call[i].status = "running"
          /\ call[i].attempts < MaxCallAttempts
          /\ \E outcome \in outcomes(function[i]), elapsed_time \in ElapsedTimes :
                /\ call' = [call EXCEPT ![i] =
                              call_iteration(retryer, call[i], function[i].name,
                                             outcome, elapsed_time)]
                /\ hist' = [hist EXCEPT ![i] =
                              observe(hist[i], retryer, function[i], outcome)]
          /\ function' = [function EXCEPT ![i] = invoked(function[i])]
    /\ UNCHANGED <<retryer, backupVars, funVars, pc, mode, client>>

CallsNext == CallsIteration

SpecCalls == CallsInit /\ [][CallsNext]_vars

(***************************************************************************)
(* SpecEquiv: two Retryers that differ in the error strategy only, the     *)
(* first with error_strategy None, the second with a strategy whose        *)
(* should_suppress is false for every error, each in a call of the same    *)
(* operation: the two calls are given the same outcome attempt by attempt. *)
(***************************************************************************)
\* an ErrorStrategy whose should_suppress returns False for every error
NeverSuppressErrorStrategy == CustomErrorStrategy({})

EquivRetryers ==
    {<<[r EXCEPT !.error_strategy = None],
       [r EXCEPT !.error_strategy = NeverSuppressErrorStrategy]>> : r \in Retryers}

EquivInit ==
    /\ mode = "equiv"
    /\ ClientIdle
    /\ pc = "calls"
    /\ retryer \in EquivRetryers
    /\ function \in Functions
    /\ call = <<new_call, new_call>>
    /\ hist = new_hist
    /\ DirIdle
    /\ RunIdle
    /\ FunIdle

\* one attempt of the operation, seen by each of the two calls that is still
\* running
EquivIteration ==
    /\ mode = "equiv"
    /\ \E i \in {1, 2} : call[i].status = "running"
    /\ \A i \in {1, 2} : call[i].attempts < MaxCallAttempts
    /\ \E outcome \in outcomes(function), elapsed_time \in ElapsedTimes :
          /\ call' = [i \in {1, 2} |->
                        IF call[i].status = "running"
                        THEN call_iteration(retryer[i], call[i], function.name,
                                            outcome, elapsed_time)
                        ELSE call[i]]
          /\ hist' = observe(hist, retryer[1], function, outcome)
    /\ function' = invoked(function)
    /\ UNCHANGED <<retryer, backupVars, funVars, pc, mode, client>>

EquivNext == EquivIteration

SpecEquiv == EquivInit /\ [][EquivNext]_vars

(***************************************************************************)
(* Spec: a sequence of incremental backup runs on one backup directory.    *)
(***************************************************************************)
Next ==
    \/ RunStart
    \/ RetryerCallIteration
    \/ RunListFailed
    \/ RunReconcile
    \/ RunEnd
    \/ DownloadStart
    \/ DownloadStore

Spec == Init /\ [][Next]_vars

\* the steps of a run that has started: each remote invocation returns or
\* raises, and the run's own statements are executed
RunStep ==
    \/ RetryerCallIteration
    \/ RunListFailed
    \/ RunReconcile
    \/ RunEnd
    \/ DownloadStart
    \/ DownloadStore

\* the last run on a directory that earlier runs left empty, or with
\* activity 1 backed up, and with or without activity 2's gpx in the ledger
FairInit ==
    /\ mode = "backup"
    /\ ClientIdle
    /\ pc = "idle"
    /\ os_name = "posix"
    /\ formats \in BackupFormatSets
    /\ \E backed_up \in {{}, {export_filename(a1, f) : f \in formats}},
          not_found \in {<<>>, <<ledger_line(export_filename(a2, "gpx"))>>} :
          /\ files = backed_up \cup (IF not_found = <<>> THEN {} ELSE {not_found_file})
          /\ ledger = not_found
    /\ partial = {}
    /\ activities = {}
    /\ missing = {}
    /\ run \in {[no_run(max_retries, w) EXCEPT !.n = MaxRuns - 1] :
                   max_retries \in 0..MaxRunRetries, w \in DateWindows}
    /\ dl = None
    /\ settled = {}
    /\ RetryIdle
    /\ FunIdle

SpecFair == FairInit /\ [][Next]_vars /\ WF_vars(RunStep)

(***************************************************************************)
(* SpecStrategies: a strategy applied to arguments of bounded sets.        *)
(***************************************************************************)
StrategyCalls ==
    [fn : {"should_continue"}, strategy : StopStrategies,
     attempts : (0 - 1)..MaxArg, elapsed_time : ElapsedTimes]
        \cup [fn : {"next_delay"},
              strategy : DelayStrategies
                            \cup {ExponentialBackoffDelayStrategy(d) : d \in 1..MaxInitialDelay},
              attempts : (0 - 1)..MaxArg]

StratInit ==
    /\ mode = "strategies"
    /\ ClientIdle
    /\ pc = "start"
    /\ fin \in StrategyCalls
    /\ fout = None
    /\ DirIdle
    /\ RunIdle
    /\ RetryIdle

\* stop_strategy.should_continue(attempts, elapsed_time)
ApplyShouldContinue ==
    /\ mode = "strategies"
    /\ pc = "start"
    /\ fin.fn = "should_continue"
    /\ fout' = [value |-> should_continue(fin.strategy, fin.attempts, fin.elapsed_time)]
    /\ pc' = "done"
    /\ UNCHANGED <<fin, backupVars, retryVars, mode, client>>

\* delay_strategy.next_delay(attempts)
ApplyNextDelay ==
    /\ mode = "strategies"
    /\ pc = "start"
    /\ fin.fn = "next_delay"
    /\ fout' = [value |-> next_delay(fin.strategy, fin.attempts)]
    /\ pc' = "done"
    /\ UNCHANGED <<fin, backupVars, retryVars, mode, client>>

StratNext == ApplyShouldContinue \/ ApplyNextDelay

SpecStrategies == StratInit /\ [][StratNext]_vars

(***************************************************************************)
(* SpecReconcile: the environment fills a directory and a ledger, then     *)
(* need_backup is applied.                                                 *)
(***************************************************************************)
SampleFormatSets ==
    {{"gpx", "fit"}, {"json_summary"}, {"tcx", "fit"}, {"json_details", "gpx", "tcx"},
     Range(export_formats)}

\* the file names of the sample activities on this host, and a foreign file
SampleNames ==
    {export_filename(a, f) : a \in SampleActivities, f \in Range(export_formats)}
        \cup {"README.txt"}

DirEntries == Cardinality(files \ {not_found_file}) + Len(ledger)

RecInit ==
    /\ mode = "reconcile"
    /\ ClientIdle
    /\ os_name \in {"posix", "nt"}
    /\ files = {}
    /\ partial = {}
    /\ ledger = <<>>
    /\ activities \in SUBSET SampleActivities
    /\ formats \in SampleFormatSets
    /\ missing = {}
    /\ pc = "start"
    /\ RunIdle
    /\ RetryIdle
    /\ FunIdle

\* a file appears in the backup directory
EnvCreateFile ==
    /\ mode = "reconcile"
    /\ pc = "start"
    /\ DirEntries < MaxDirEntries
    /\ \E n \in SampleNames \ files : files' = files \cup {n}
    /\ UNCHANGED <<os_name, partial, ledger, activities, formats, missing, pc, mode, client>>
    /\ UNCHANGED <<runVars, retryVars, funVars>>

\* a line is appended to the ledger (the file is created when absent)
EnvAppendLine ==
    /\ mode = "reconcile"
    /\ pc = "start"
    /\ DirEntries < MaxDirEntries
    /\ \E n \in SampleNames :
          /\ ledger' = Append(ledger, ledger_line(n))
          /\ files' = files \cup {not_found_file}
    /\ UNCHANGED <<os_name, partial, activities, formats, missing, pc, mode, client>>
    /\ UNCHANGED <<runVars, retryVars, funVars>>

\* missing_activities = need_backup(activities, backup_dir, export_formats)
Reconcile ==
    /\ mode = "reconcile"
    /\ pc = "start"
    /\ missing' = need_backup(activities, formats)
    /\ pc' = "reconciled"
    /\ UNCHANGED <<os_name, files, partial, ledger, activities, formats, mode, client>>
    /\ UNCHANGED <<runVars, retryVars, funVars>>

\* every name of the ledger becomes a file of the directory, and the ledger
\* is emptied or removed; the first result of need_backup is kept
EnvLedgerToDisk ==
    /\ mode = "reconcile"
    /\ pc = "reconciled"
    /\ fin' = [files |-> files, ledger |-> ledger]
    /\ fout' = [value |-> missing]
    /\ \E kept \in SUBSET {not_found_file} :
          files' = ((files \cup LedgerNames) \ {not_found_file}) \cup kept
    /\ ledger' = <<>>
    /\ pc' = "moved"
    /\ UNCHANGED <<os_name, partial, activities, formats, missing, mode, client>>
    /\ UNCHANGED <<runVars, retryVars>>

\* need_backup(activities, backup_dir, export_formats) on the new directory
ReconcileAgain ==
    /\ mode = "reconcile"
    /\ pc = "moved"
    /\ missing' = need_backup(activities, formats)
    /\ pc' = "again"
    /\ UNCHANGED <<os_name, files, partial, ledger, activities, formats, mode, client>>
    /\ UNCHANGED <<runVars, retryVars, funVars>>

RecNext ==
    \/ EnvCreateFile
    \/ EnvAppendLine
    \/ Reconcile
    \/ EnvLedgerToDisk
    \/ ReconcileAgain

SpecReconcile == RecInit /\ [][RecNext]_vars

(***************************************************************************)
(* SpecNames: export_filename applied to two (activity, format) pairs.     *)
(***************************************************************************)
\* the start time of t1 without a utc offset
t3 == [t1 EXCEPT !.tz = <<>>]

\* activities that share an id or a start time, and ids that share digits
NameActivities == {<<id, start>> : id \in {1, 11, 2}, start \in {t1, t2, t3}}

NamePairs == NameActivities \X Range(export_formats)

NamesInit ==
    /\ mode = "names"
    /\ ClientIdle
    /\ pc = "start"
    /\ os_name \in {"posix", "nt"}
    /\ fin \in [first : NamePairs, second : NamePairs]
    /\ fout = None
    /\ files = {}
    /\ partial = {}
    /\ ledger = <<>>
    /\ activities = {}
    /\ formats = {}
    /\ missing = {}
    /\ RunIdle
    /\ RetryIdle

\* export_filename(activity, export_format), for both pairs
ApplyExportFilename ==
    /\ mode = "names"
    /\ pc = "start"
    /\ fout' = [first |-> export_filename(fin.first[1], fin.first[2]),
                second |-> export_filename(fin.second[1], fin.second[2])]
    /\ pc' = "done"
    /\ UNCHANGED <<fin, backupVars, retryVars, mode, client>>

NamesNext == ApplyExportFilename

SpecNames == NamesInit /\ [][NamesNext]_vars

(***************************************************************************)
(* SpecWindow: the filtering of the missing activities by start date,      *)
(* applied to every window over four days and to every set of activities   *)
(* that start on them.                                                     *)
(***************************************************************************)
\* a start in the next month, and one in the next year
t4 == [t1 EXCEPT !.month = 3, !.day = 1, !.hour = 23, !.minute = 59]
t5 == [t1 EXCEPT !.year = 2016, !.month = 1, !.day = 20]

WindowActivities == {a1, a2, <<3, t4>>, <<4, t5>>}

\* datetime.strptime(from_date, "%Y%m%d").date(), or None
WindowBounds == {None} \cup {date(a[2]) : a \in WindowActivities}

WindowInit ==
    /\ mode = "window"
    /\ ClientIdle
    /\ DirIdle
    /\ RunIdle
    /\ RetryIdle
    /\ \E from_date \in WindowBounds, to_date \in WindowBounds :
       \E missing_activities \in SUBSET WindowActivities :
          fin = [from_date |-> from_date, to_date |-> to_date,
                 missing_activities |-> missing_activities]
    /\ fout = None
    /\ pc = "apply"

ApplyFilterByDate ==
    /\ mode = "window"
    /\ pc = "apply"
    /\ fout' = filter_missing_activities(fin.from_date, fin.to_date, fin.missing_activities)
    /\ pc' = "done"
    /\ UNCHANGED <<fin, backupVars, retryVars, mode, client>>

WindowNext == ApplyFilterByDate

SpecWindow == WindowInit /\ [][WindowNext]_vars

(***************************************************************************)
(* SpecClient: the life cycle of one GarminClient.  The client is          *)
(* connected and disconnected, directly or through the with-statement,     *)
(* and its remote operations are invoked in every state of its session.    *)
(* The record of the client carries, next to its session, the HTTP         *)
(* sessions it opened and closed and the remote requests it sent.          *)
(***************************************************************************)
MaxSessions == 3   \* HTTP sessions opened by one client
MaxRequests == 3   \* remote requests sent by one client

NotConnectedError ==
    [type |-> "Exception",
     message |-> <<"Attempt to use GarminClient without being connected. ",
                   "Call connect() before first use.'">>]

\* self.session.get on a session that is None
AttributeError ==
    [type |-> "AttributeError",
     message |-> <<"'NoneType' object has no attribute 'get'">>]

\* _login: the sign-in was answered with a status other than 200
AuthenticationError ==
    [type |-> "ValueError", message |-> <<"authentication attempt failed">>]

new_http_session == [kind |-> "Session", authenticated |-> FALSE]

\* GarminClient.__init__
new_client == [session |-> None, opened |-> 0, closed |-> 0, requests |-> 0]

\* the methods that carry the decorator @require_session
decorated ==
    {"list_activities", "_fetch_activity_ids_and_ts", "get_activity_summary",
     "get_activity_details", "get_activity_gpx", "get_activity_tcx",
     "_poll_upload_completion", "upload_activity"}

\* the remote operations a caller of the client invokes
RemoteOperations ==
    {"list_activities", "get_activity_summary", "get_activity_details",
     "get_activity_gpx", "get_activity_tcx", "get_original_activity",
     "get_activity_fit", "upload_activity"}

\* the extension of the original file: ext[1:] of os.path.splitext
extension(name) == [kind |-> name]

\* what the body of a remote operation can come to once its request is sent
method_outcomes(name) ==
    IF name = "get_original_activity"
    THEN {returned(<<extension("fit"), Data>>), returned(<<extension("gpx"), Data>>),
          returned(<<None, None>>), raised(RemoteError)}
    ELSE IF name = "upload_activity"
         THEN {returned(a1[1]), raised(RemoteError)}
         ELSE client_outcomes(name)

\* the decorator's test, "if not client_object.session", let every call through
require_session_unchecked(c, name) == FALSE

\* require_session: TRUE when the wrapper raises instead of calling the method
require_session(c, name) == name \in decorated /\ c.session = None

\* one invocation of a remote operation whose body would come to `outcome`
invoke(c, name, outcome) ==
    IF require_session(c, name)
    THEN [client |-> c, outcome |-> raised(NotConnectedError)]
    ELSE IF c.session = None
         THEN \* an undecorated method: its first statement is self.session.get
              [client |-> c, outcome |-> raised(AttributeError)]
         ELSE [client |-> [c EXCEPT !.requests = @ + 1], outcome |-> outcome]

\* connect: the session is assigned first, then _authenticate signs in over it
connect(c, authenticates) ==
    LET opened == [c EXCEPT !.session = new_http_session,
                            !.opened = @ + 1,
                            !.requests = @ + 1]
    IN  IF authenticates
        THEN [client |-> [opened EXCEPT !.session.authenticated = TRUE],
              outcome |-> returned(None)]
        ELSE [client |-> opened, outcome |-> raised(AuthenticationError)]

\* disconnect closed the session and kept the reference to it
disconnect_keeps_session(c) ==
    IF c.session # None THEN [c EXCEPT !.closed = @ + 1] ELSE c

\* disconnect
disconnect(c) ==
    IF c.session # None
    THEN [c EXCEPT !.session = None, !.closed = @ + 1]
    ELSE c

\* what fin keeps of a step of the client: the operation and the client before
client_step(fn, c) ==
    [fn |-> fn, session |-> c.session, closed |-> c.closed, requests |-> c.requests]

ClientInit ==
    /\ mode = "client"
    /\ DirIdle
    /\ RunIdle
    /\ RetryIdle
    /\ client = new_client
    /\ fin = client_step("__init__", new_client)
    /\ fout = returned(None)
    /\ pc = "out"

\* client.connect()
ClientConnect ==
    /\ mode = "client"
    /\ pc = "out"
    /\ client.opened < MaxSessions
    /\ \E authenticates \in BOOLEAN :
         LET r == connect(client, authenticates)
         IN  /\ client' = r.client
             /\ fout' = r.outcome
    /\ fin' = client_step("connect", client)
    /\ UNCHANGED <<backupVars, retryVars, pc, mode>>

\* client.disconnect()
ClientDisconnect ==
    /\ mode = "client"
    /\ pc = "out"
    /\ client' = disconnect(client)
    /\ fin' = client_step("disconnect", client)
    /\ fout' = returned(None)
    /\ UNCHANGED <<backupVars, retryVars, pc, mode>>

\* with client: __enter__ connects; when it raises, the block is not entered
\* and __exit__ is not called
ClientEnter ==
    /\ mode = "client"
    /\ pc = "out"
    /\ client.opened < MaxSessions
    /\ \E authenticates \in BOOLEAN :
         LET r == connect(client, authenticates)
         IN  /\ client' = r.client
             /\ fout' = r.outcome
             /\ pc' = IF r.outcome.kind = "return" THEN "block" ELSE "out"
    /\ fin' = client_step("__enter__", client)
    /\ UNCHANGED <<backupVars, retryVars, mode>>

\* the block of the with-statement completes, or fails with an error:
\* __exit__ disconnects and returns None, so an error of the block goes on
ClientExit ==
    /\ mode = "client"
    /\ pc = "block"
    /\ client' = disconnect(client)
    /\ fin' = client_step("__exit__", client)
    /\ \E block \in {returned(None), raised(RemoteError)} : fout' = block
    /\ pc' = "out"
    /\ UNCHANGED <<backupVars, retryVars, mode>>

\* a remote operation is invoked, inside or outside a with-block
ClientInvoke ==
    /\ mode = "client"
    /\ pc \in {"out", "block"}
    /\ client.requests < MaxRequests
    /\ \E name \in RemoteOperations :
       \E outcome \in method_outcomes(name) :
         LET r == invoke(client, name, outcome)
         IN  /\ client' = r.client
             /\ fout' = r.outcome
             /\ fin' = client_step(name, client)
    /\ UNCHANGED <<backupVars, retryVars, pc, mode>>

ClientNext ==
    \/ ClientConnect
    \/ ClientDisconnect
    \/ ClientEnter
    \/ ClientExit
    \/ ClientInvoke

SpecClient == ClientInit /\ [][ClientNext]_vars

(***************************************************************************)
(* SpecTicket: _extract_auth_ticket_url applied to login responses.  A     *)
(* string is kept as the sequence of its pieces, a missing key as None.    *)
(***************************************************************************)
str(pieces) == [kind |-> "str", value |-> pieces]

\* the values a login response can hold under serviceURL and serviceTicketId
ServiceURLs ==
    {None, str(<<>>), str(<<"/">>),
     str(<<"https://connect.garmin.com/modern">>),
     str(<<"https://connect.garmin.com/modern", "/">>),
     str(<<"https://connect.garmin.com/modern", "/", "/">>)}

ServiceTicketIds ==
    {None, str(<<>>), str(<<"ST-0123456-aBCDefgh1iJkLmN5opQ9R-cas">>), str(<<"ST-1">>)}

ResponseStatusTypes == {"INVALID_USERNAME_PASSWORD", "SUCCESSFUL", "ACCOUNT_LOCKED"}

AuthResponses ==
    [responseStatus : [type : ResponseStatusTypes],
     serviceURL : ServiceURLs,
     serviceTicketId : ServiceTicketIds]

\* "not value": None and the empty string are falsy
falsy(value) == value.kind = "None" \/ value.value = <<>>

RECURSIVE rstrip_slash(_)
\* str.rstrip('/')
rstrip_slash(pieces) ==
    IF pieces # <<>> /\ pieces[Len(pieces)] = "/"
    THEN rstrip_slash(SubSeq(pieces, 1, Len(pieces) - 1))
    ELSE pieces

\* raise RuntimeError("auth failure: unable to extract ...")
AuthFailure(what) ==
    [type |-> "RuntimeError", message |-> <<"auth failure: unable to extract ", what>>]

\* the RuntimeError("authentication failure: did you provide a correct
\* username/password?") of l.183-184 is built and dropped, there is no raise
\* in front of it: the responseStatus type has no effect on what follows
_extract_auth_ticket_url(auth_response) ==
    LET service_url == auth_response.serviceURL
        auth_ticket == auth_response.serviceTicketId
    IN  IF falsy(service_url)
        THEN raised(AuthFailure("serviceURL"))
        ELSE IF falsy(auth_ticket)
        THEN raised(AuthFailure("serviceTicketId"))
        ELSE returned(Concat(rstrip_slash(service_url.value)
                             \o <<"?ticket=">> \o auth_ticket.value))

TicketInit ==
    /\ mode = "ticket"
    /\ ClientIdle
    /\ DirIdle
    /\ RunIdle
    /\ RetryIdle
    /\ fin \in AuthResponses
    /\ fout = None
    /\ pc = "apply"

ApplyExtractAuthTicketUrl ==
    /\ mode = "ticket"
    /\ pc = "apply"
    /\ fout' = _extract_auth_ticket_url(fin)
    /\ pc' = "done"
    /\ UNCHANGED <<fin, backupVars, retryVars, mode, client>>

TicketNext == ApplyExtractAuthTicketUrl

SpecTicket == TicketInit /\ [][TicketNext]_vars

(***************************************************************************)
(* SpecBackoff: one Retryer.call with the delay and stop strategies of the *)
(* upload's polling, for every predicate, error strategy and operation.    *)
(***************************************************************************)
BackoffRetryers ==
    [returnval_predicate : Predicates,
     delay_strategy : {ExponentialBackoffDelayStrategy(1)},
     stop_strategy : {MaxRetriesStopStrategy(6)},
     error_strategy : ErrorStrategies]

BackoffInit ==
    /\ mode = "retry"
    /\ ClientIdle
    /\ pc = "call"
    /\ retryer \in BackoffRetryers
    /\ function \in Functions
    /\ call = new_call
    /\ hist = new_hist
    /\ DirIdle
    /\ RunIdle
    /\ FunIdle

SpecBackoff == BackoffInit /\ [][RetryNext]_vars

(***************************************************************************)
(* SpecUpload: one upload_activity of a connected client: the upload, the  *)
(* polls for its completion when the answer is 202, the optional fields.   *)
(***************************************************************************)
\* Retryer(returnval_predicate=bool,
\*         delay_strategy=ExponentialBackoffDelayStrategy(initial_delay=1 s),
\*         stop_strategy=MaxRetriesStopStrategy(6), error_strategy=None)
upload_retryer_suppressing ==
    [returnval_predicate |-> bool,
     delay_strategy |-> ExponentialBackoffDelayStrategy(1),
     stop_strategy |-> MaxRetriesStopStrategy(6),
     error_strategy |-> SuppressAllErrorStrategy]

upload_retryer ==
    [returnval_predicate |-> bool,
     delay_strategy |-> ExponentialBackoffDelayStrategy(1),
     stop_strategy |-> MaxRetriesStopStrategy(6),
     error_strategy |-> None]

\* the answers to the upload: one success; one failure with status 409;
\* status 202 with neither; several successes; anything else; no result
UploadResponses ==
    {"success", "duplicate", "accepted", "multiple", "failure", "no_result"}

\* raise Exception(u"failed to upload ...") and the like
UploadError == [type |-> "Exception", message |-> <<"failed to upload">>]

UploadInit ==
    /\ mode = "upload"
    /\ DirIdle
    /\ RunIdle
    /\ RetryIdle
    /\ client = connect(new_client, TRUE).client
    /\ \E data \in BOOLEAN :   \* whether an optional field (name, ...) is given
          fin = [fn |-> "upload_activity", data |-> data,
                 response |-> None, activity_id |-> None]
    /\ fout = None
    /\ pc = "post"

\* self.session.post(...) and the inspection of its answer
UploadPost ==
    /\ mode = "upload"
    /\ pc = "post"
    /\ \E response \in UploadResponses, id \in UploadedIds :
          /\ fin' = [fin EXCEPT !.response = [kind |-> response],
                                !.activity_id = IF response \in {"success", "duplicate"}
                                                THEN id ELSE None]
          /\ IF response \in {"success", "duplicate"}
             THEN /\ pc' = "metadata"
                  /\ UNCHANGED <<fout, retryVars>>
             ELSE IF response = "accepted"
             THEN /\ pc' = "poll"
                  /\ retryer' = upload_retryer
                  /\ function' = client_function("_poll_upload_completion")
                  /\ call' = new_call
                  /\ hist' = new_hist
                  /\ UNCHANGED fout
             ELSE /\ pc' = "raised"
                  /\ fout' = raised(UploadError)
                  /\ UNCHANGED retryVars
    /\ UNCHANGED <<backupVars, client, mode>>

\* retryer.call(self._poll_upload_completion, ...) has ended
UploadPolled ==
    /\ mode = "upload"
    /\ pc = "poll"
    /\ call.status # "running"
    /\ IF call.status = "returned"
       THEN /\ fin' = [fin EXCEPT !.activity_id = call.result]
            /\ pc' = "metadata"
            /\ UNCHANGED fout
       ELSE /\ fout' = raised(call.result)
            /\ pc' = "raised"
            /\ UNCHANGED fin
    /\ UNCHANGED <<backupVars, retryVars, client, mode>>

\* the optional fields are set with a put, which must be answered with 204
UploadMetadata ==
    /\ mode = "upload"
    /\ pc = "metadata"
    /\ \E status \in {204, 500} :
          IF fin.data /\ status # 204
          THEN /\ fout' = raised(UploadError)
               /\ pc' = "raised"
          ELSE /\ fout' = returned(fin.activity_id)
               /\ pc' = "done"
    /\ UNCHANGED <<fin, backupVars, retryVars, client, mode>>

UploadNext ==
    \/ UploadPost
    \/ RetryerCallIteration
    \/ UploadPolled
    \/ UploadMetadata

SpecUpload == UploadInit /\ [][UploadNext]_vars

(***************************************************************************)
(* C1: need_backup returns exactly the input activities for which some     *)
(* requested format's canonical name is neither a file of the directory    *)
(* nor a line of the ledger; no activity outside the input is returned.    *)
(* With the spec's example: items 1 and 2, formats gpx and fit, only       *)
(* item 1's gpx on disk gives both items; item 1's fit added gives item 2. *)
(***************************************************************************)
C1_NeedBackupExact ==
    (mode = "reconcile" /\ pc = "reconciled") =>
        /\ missing \subseteq activities
        /\ \A a \in activities :
              (a \notin missing) <=> (\A f \in formats : Accounted(a, f))
        /\ (activities = {a1, a2} /\ formats = {"gpx", "fit"} /\ ledger = <<>>) =>
              /\ files = {export_filename(a1, "gpx")} => missing = {a1, a2}
              /\ files = {export_filename(a1, "gpx"), export_filename(a1, "fit")}
                    => missing = {a2}

C1_Witness ==
    /\ mode = "reconcile"
    /\ pc = "reconciled"
    /\ activities = {a1, a2}
    /\ formats = {"gpx", "fit"}
    /\ files = {export_filename(a1, "gpx"), not_found_file}
    /\ ledger = <<ledger_line(export_filename(a1, "fit"))>>
    /\ missing = {a2}

(***************************************************************************)
(* C2: Retryer.call returns a value r only when the operation returned r   *)
(* without raising and returnval_predicate(r) is true; it is the first     *)
(* such result and the operation is not invoked after it.  With the        *)
(* predicate r == 20 and a Counter, call returns 20 after exactly 21       *)
(* invocations.                                                            *)
(***************************************************************************)
C2_ReturnsFirstSatisfying ==
    /\ (mode = "retry" /\ call.status = "running") => hist.ok_at = 0
    /\ (mode = "retry" /\ call.status = "returned") =>
          /\ hist.last = returned(call.result)
          /\ retryer.returnval_predicate = equals(20) => call.result = 20
          /\ hist.ok_at = function.called
          /\ call.attempts = function.called
          /\ (function.kind = "Counter" /\ retryer.returnval_predicate = equals(20)) =>
                function.called = 21

C2_Witness ==
    /\ mode = "retry"
    /\ function.kind = "Counter"
    /\ retryer.returnval_predicate = equals(20)
    /\ retryer.stop_strategy = NeverStopStrategy
    /\ call.status = "returned"
    /\ call.result = 20
    /\ function.called = 21

(***************************************************************************)
(* C3: with the suppress-all error strategy, the never-stop strategy and   *)
(* the always-true predicate, an operation that raises on its first k      *)
(* invocations and then returns v makes the call return v after exactly    *)
(* k + 1 invocations, for every k (9 failures: 10 invocations).            *)
(***************************************************************************)
C3_Case ==
    /\ mode = "retry"
    /\ function.kind = "FailNTimesThenReturn"
    /\ retryer.returnval_predicate = always_true
    /\ retryer.stop_strategy = NeverStopStrategy
    /\ retryer.error_strategy = SuppressAllErrorStrategy

C3_Safe ==
    C3_Case =>
        /\ call.status \in {"running", "returned"}
        /\ call.status = "running" => function.called < function.calls_until_success
        /\ call.status = "returned" =>
              /\ call.result = function.returnval
              /\ function.called = function.calls_until_success
              /\ call.attempts = function.calls_until_success
              /\ hist.fails = function.calls_until_success - 1

C3_FailsThenSucceeds == []C3_Safe /\ (C3_Case ~> call.status = "returned")

C3_Witness ==
    /\ C3_Case
    /\ function.calls_until_success = 10
    /\ hist.fails = 9
    /\ call.status = "returned"
    /\ function.called = 10

(***************************************************************************)
(* C4: with MaxRetriesStopStrategy(N) and every error suppressed the call  *)
(* ends whatever the operation does: the operation is invoked at most      *)
(* N + 1 times, GaveUpError is raised exactly when N + 1 attempts failed,  *)
(* and with N = 0 one attempt is made and none retried.                    *)
(***************************************************************************)
C4_Case ==
    /\ mode = "retry"
    /\ retryer.stop_strategy.kind = "MaxRetriesStopStrategy"
    /\ retryer.error_strategy = SuppressAllErrorStrategy

C4_Safe ==
    C4_Case =>
        LET N == retryer.stop_strategy.max_retries IN
        /\ function.called <= N + 1
        /\ call.attempts = function.called
        /\ call.status # "raised"
        /\ (call.status = "gave_up") <=> (hist.fails = N + 1)
        /\ (N = 0 /\ function.called > 0) =>
              /\ call.status \in {"returned", "gave_up"}
              /\ function.called = 1
              /\ call.sleeps = <<>>

C4_MaxRetriesTerminates ==
    []C4_Safe /\ (C4_Case ~> call.status \in {"returned", "gave_up"})

C4_Witness ==
    /\ C4_Case
    /\ retryer.stop_strategy.max_retries = 2
    /\ call.status = "gave_up"
    /\ function.called = 3
    /\ hist.fails = 3

(***************************************************************************)
(* C5: MaxRetriesStopStrategy(max_retries).should_continue(attempts,       *)
(* elapsed) is true for attempts <= max_retries and false for every        *)
(* attempts >= max_retries + 1, whatever elapsed is.                       *)
(***************************************************************************)
C5_MaxRetriesShouldContinue ==
    (mode = "strategies" /\ pc = "done" /\ fin.fn = "should_continue"
        /\ fin.strategy.kind = "MaxRetriesStopStrategy") =>
        /\ fin.attempts <= fin.strategy.max_retries => fout.value = TRUE
        /\ fin.attempts >= fin.strategy.max_retries + 1 => fout.value = FALSE

C5_Witness ==
    /\ mode = "strategies"
    /\ pc = "done"
    /\ fin.fn = "should_continue"
    /\ fin.strategy = MaxRetriesStopStrategy(2)
    /\ fin.attempts = 3
    /\ fin.elapsed_time = 5
    /\ fout.value = FALSE

(***************************************************************************)
(* C6: with error_strategy None the first error the operation raises ends  *)
(* the call with that same error: the raising invocation is the last one,  *)
(* no sleep follows it and the stop strategy is not consulted for it,      *)
(* whatever the stop strategy.  An operation that raises on its first      *)
(* invocation is invoked exactly once.                                     *)
(***************************************************************************)
C6_NoErrorStrategyPropagates ==
    (mode = "retry" /\ retryer.error_strategy = None /\ hist.error_at # 0) =>
        /\ call.status = "raised"
        /\ call.result = hist.error
        /\ function.called = hist.error_at
        /\ call.attempts = hist.error_at
        /\ call.stop_calls = hist.error_at - 1
        /\ Len(call.sleeps) = hist.error_at - 1
        /\ hist.error_at = 1 =>
              /\ function.called = 1
              /\ call.stop_calls = 0
              /\ call.sleeps = <<>>

C6_Witness ==
    /\ mode = "retry"
    /\ retryer.error_strategy = None
    /\ retryer.stop_strategy = NeverStopStrategy
    /\ call.status = "raised"
    /\ call.result = RuntimeError
    /\ function.called = 1
    /\ call.stop_calls = 0

(***************************************************************************)
(* C7: when the stop strategy answers false after a failed attempt the     *)
(* call fails with GaveUpError, which is not the operation's error, and    *)
(* the failure carries the operation's name and the number of attempts.    *)
(***************************************************************************)
C7_GaveUpCarriesNameAndAttempts ==
    (mode = "retry" /\ call.status = "gave_up") =>
        /\ call.result.type = "GaveUpError"
        /\ call.result.type \notin {e.type : e \in Errors}
        /\ function.name \in Range(call.result.message)
        /\ ToString(call.attempts) \in Range(call.result.message)

C9_OnlyMissingDownloaded ==
    mode = "backup" =>
        /\ \A a \in run.attempted :
              /\ a \in missing
              /\ \E f \in formats : export_filename(a, f) \notin run.snapshot
        /\ pc = "fetch" => dl.activity \in run.attempted

C9_Witness ==
    /\ mode = "backup"
    /\ pc = "next"
    /\ run.n = 2
    /\ run.from_date = None
    /\ run.todo = {}
    /\ activities = {a1, a2}
    /\ run.attempted = {a1}
    /\ \A f \in formats : export_filename(a2, f) \in run.snapshot

(***************************************************************************)
(* C10: within one download, a fetch of gpx, tcx or fit that returns None  *)
(* for format X appends exactly one ledger line, X's canonical file name,  *)
(* opens no file for X, and does not end the download: the formats after   *)
(* X are handled, and every format Y whose representation was fetched and  *)
(* whose write did not fail has its file written.                          *)
(***************************************************************************)
C10_NoneIsolated ==
    (mode = "backup" /\ dl # None) =>
        \A X \in dl.none :
            /\ X \notin dl.opened
            /\ X \notin dl.failed
            /\ Cardinality({i \in (dl.ledger0 + 1)..Len(ledger) :
                              ledger[i] = <<export_filename(dl.activity, X), "\n">>}) = 1
            /\ dl.status = "running" => dl.pos > FormatPos(X)
            /\ dl.status = "raised" => dl.pos # FormatPos(X)
            /\ \A Y \in dl.got \ dl.failed :
                  /\ Y \in dl.wrote
                  /\ export_filename(dl.activity, Y) \in files \ partial

C10_Witness ==
    /\ mode = "backup"
    /\ dl # None
    /\ dl.none = {"gpx"}
    /\ dl.wrote = {"fit"}
    /\ dl.status = "returned"
    /\ export_filename(dl.activity, "fit") \in files \ partial
    /\ export_filename(dl.activity, "gpx") \notin files

(***************************************************************************)
(* C11 as stated: within one download every requested format is attempted  *)
(* whatever the outcome of the others.                                     *)
(***************************************************************************)
C11_EveryFormatAttempted ==
    (mode = "backup" /\ dl # None /\ dl.status \in {"returned", "raised"}) =>
        dl.fetched = formats

(***************************************************************************)
(* C11 amended: within one download only a failure of json_details leaves  *)
(* the later formats to be attempted.  When the download has ended, a      *)
(* requested format was not attempted exactly when a format handled        *)
(* before it, other than json_details, failed in its fetch or its write;   *)
(* the formats are handled in the order json_summary, json_details, gpx,   *)
(* tcx, fit.                                                               *)
(***************************************************************************)
C11_OnlyDetailsFailureIsolated ==
    (mode = "backup" /\ dl # None /\ dl.status \in {"returned", "raised"}) =>
        \A Y \in formats :
            (Y \notin dl.fetched) <=>
                (\E X \in dl.failed \ {"json_details"} : FormatPos(X) < FormatPos(Y))

C11_Witness ==
    /\ mode = "backup"
    /\ dl # None
    /\ dl.status = "returned"
    /\ formats = {"json_details", "gpx"}
    /\ "json_details" \in dl.failed \ dl.got
    /\ "gpx" \in dl.fetched
    /\ "gpx" \in dl.wrote

(***************************************************************************)
(* C12 as stated: for every requested format a fetch that ends in          *)
(* GaveUpError or an unsuppressed error makes download raise.              *)
(***************************************************************************)
C12_FetchFailureRaises ==
    (mode = "backup" /\ dl # None) =>
        \A X \in dl.failed \ dl.got :
            dl.status = "raised" /\ dl.pos = FormatPos(X)

(***************************************************************************)
(* C12 amended: for every requested format other than json_details a       *)
(* fetch that ends in GaveUpError or an unsuppressed error makes download  *)
(* raise at that format, and the run sees the activity as failed (it       *)
(* raises, or goes on to the next activity when errors are ignored).  A    *)
(* failed fetch of json_details is logged and download goes on to the      *)
(* next format without raising.                                            *)
(***************************************************************************)
C12_FetchFailureRaisesButDetails ==
    (mode = "backup" /\ dl # None) =>
        \A X \in dl.failed \ dl.got :
            IF X = "json_details"
            THEN /\ dl.status = "running" => dl.pos > FormatPos(X)
                 /\ dl.status = "raised" => dl.pos # FormatPos(X)
            ELSE /\ dl.status = "raised"
                 /\ dl.pos = FormatPos(X)
                 /\ pc \in {"next", "raised"}
                 /\ pc = "next" => run.ignore_errors

C12_Witness ==
    /\ mode = "backup"
    /\ dl # None
    /\ pc = "raised"
    /\ dl.status = "raised"
    /\ dl.wrote = {"gpx"}
    /\ "fit" \in dl.failed \ dl.got
    /\ dl.pos = FormatPos("fit")

C14_LedgerEquivalentToDisk ==
    /\ (mode = "reconcile" /\ pc = "again") => missing = fout.value
    /\ (mode = "reconcile" /\ pc = "reconciled" /\ a2 \in activities
           /\ formats = {"gpx", "fit"}
           /\ export_filename(a2, "gpx") \in files
           /\ export_filename(a2, "fit") \in LedgerNames \ files) => a2 \notin missing

C14_Witness ==
    /\ mode = "reconcile"
    /\ pc = "again"
    /\ formats = {"gpx", "fit"}
    /\ a2 \in activities
    /\ fin.ledger = <<ledger_line(export_filename(a2, "fit"))>>
    /\ fin.files = {export_filename(a2, "gpx"), not_found_file}
    /\ files = {export_filename(a2, "gpx"), export_filename(a2, "fit")}
    /\ ledger = <<>>
    /\ a2 \notin missing
    /\ a2 \notin fout.value

(***************************************************************************)
(* C15: export_filename is deterministic and injective over (activity,     *)
(* format): the same pair gives the same name, distinct pairs give         *)
(* distinct names (two activities never share a name in any format), and   *)
(* the five formats of one activity give five distinct names.              *)
(***************************************************************************)
C15_ExportFilenameInjective ==
    (mode = "names" /\ pc = "done") =>
        /\ (fin.first = fin.second) <=> (fout.first = fout.second)
        /\ Cardinality({export_filename(fin.first[1], f) : f \in Range(export_formats)}) = 5

C15_Witness ==
    /\ mode = "names"
    /\ pc = "done"
    /\ os_name = "nt"
    /\ fin.first = <<<<1, t1>>, "gpx">>
    /\ fin.second = <<<<11, t3>>, "gpx">>
    /\ fout.first = "2015-02-17T05_45_00+00_00_1.gpx"
    /\ fout.second = "2015-02-17T05_45_00_11.gpx"

(***************************************************************************)
(* C16: in every state of the backup directory, also after a write that    *)
(* failed between opening the file and finishing the write, a file with    *)
(* the canonical name of (activity, format) exists only if the             *)
(* representation was fetched and completely written; need_backup never    *)
(* counts an unfinished write as backed up.                                *)
(***************************************************************************)
C16_NeedBackupSkipsUnfinished ==
    (mode = "backup" /\ pc \in {"next", "fetch"}) =>
        \A a \in activities \ missing :
            \A f \in formats : export_filename(a, f) \notin partial

C16_FilesAreComplete ==
    /\ mode = "backup" => files \cap partial = {}
    /\ C16_NeedBackupSkipsUnfinished

(***************************************************************************)
(* C17: across downloads and runs, whether they succeed or fail, the set   *)
(* of file names in the backup directory never shrinks and the ledger      *)
(* only grows by appended lines: no line is removed, reordered or          *)
(* rewritten.                                                              *)
(***************************************************************************)
C17_DirectoryAndLedgerGrow ==
    [][mode = "backup" =>
          /\ files \subseteq files'
          /\ Len(ledger) <= Len(ledger')
          /\ SubSeq(ledger', 1, Len(ledger)) = ledger]_vars

C17_Witness ==
    /\ mode = "backup"
    /\ run.n = 2
    /\ dl # None
    /\ dl.status = "raised"
    /\ Len(ledger) = 2
    /\ ledger[1] = ledger[2]
    /\ Cardinality(files) >= 3

(***************************************************************************)
(* C18: when the download of an activity fails, the files and ledger       *)
(* lines written before, for other activities and for earlier formats of   *)
(* the same activity, are left as they were; every name that was a file    *)
(* or a ledger line stays one, and the reconciliation of the next run      *)
(* leaves out every activity whose requested names are all accounted for.  *)
(***************************************************************************)
C18_FailureKeepsOthers ==
    [][mode = "backup" =>
          /\ (pc = "fetch" /\ dl'.status = "raised") =>
                LET X == export_filename(dl.activity, download_order[dl.pos]) IN
                /\ ledger' = ledger
                /\ files \subseteq files'
                /\ files' \ files \subseteq {X}
                /\ partial' \ {X} = partial \ {X}
          /\ files \cup LedgerNames \subseteq files' \cup LedgerNames'
          /\ (pc = "list" /\ pc' = "next") =>
                \A a \in activities' :
                    (\A f \in formats : Accounted(a, f)') => a \notin missing']_vars

C18_Witness ==
    /\ mode = "backup"
    /\ run.n = 2
    /\ pc = "next"
    /\ formats = {"gpx", "fit"}
    /\ activities = {a1, a2}
    /\ missing = {a2}
    /\ export_filename(a2, "gpx") \in files \ partial
    /\ export_filename(a2, "fit") \notin files \cup LedgerNames
    /\ export_filename(a1, "gpx") \in files \ partial
    /\ export_filename(a1, "fit") \in files \ partial

(***************************************************************************)
(* C19: in a run with ignore_errors false the first activity whose         *)
(* download raises ends the run with the error and no later activity is    *)
(* attempted; with ignore_errors true every activity selected for backup   *)
(* is attempted exactly once whatever became of the earlier ones, and the  *)
(* run does not raise because of a download.                               *)
(***************************************************************************)
C19_Selected ==
    IF run.from_date # None \/ run.to_date # None
    THEN {x \in missing : _filter_by_date(run.from_date, run.to_date, x[2])}
    ELSE missing

C19_Once ==
    (mode = "backup" /\ pc \in {"next", "fetch"}) =>
        /\ run.todo \cap run.attempted = {}
        /\ run.todo \cup run.attempted = C19_Selected
        /\ pc = "fetch" => dl.activity \in run.attempted

C19_IgnoreErrors ==
    /\ []C19_Once
    /\ [][mode = "backup" =>
             /\ (pc = "fetch" /\ dl'.status = "raised") =>
                   IF run.ignore_errors
                   THEN pc' = "next" /\ run' = run
                   ELSE pc' = "raised"
             /\ pc = "raised" => pc' = "list"
             /\ (run.ignore_errors /\ pc \in {"next", "fetch"}) => pc' # "raised"
             /\ (pc = "next" /\ pc' = "fetch") =>
                   /\ dl'.activity \in run.todo
                   /\ run'.attempted = run.attempted \cup {dl'.activity}
                   /\ run'.todo = run.todo \ {dl'.activity}
             /\ (pc = "next" /\ pc' = "done") => run.attempted = C19_Selected]_vars

C19_Witness ==
    /\ mode = "backup"
    /\ run.n = 1
    /\ run.ignore_errors
    /\ formats = {"gpx", "fit"}
    /\ pc = "fetch"
    /\ run.attempted = {a1, a2}
    /\ run.todo = {}
    /\ \E a \in run.attempted \ {dl.activity} :
          /\ export_filename(a, "gpx") \in partial
          /\ export_filename(a, "fit") \notin files \cup LedgerNames

(***************************************************************************)
(* C20: ExponentialBackoffDelayStrategy(initial_delay = d).next_delay(n)   *)
(* is d doubled n - 1 times for every n >= 1 (d, 2d, 4d, ..., 512d at      *)
(* n = 10) and zero for every n <= 0, with no cap and no jitter.           *)
(***************************************************************************)
RECURSIVE C20_Doubled(_, _)
C20_Doubled(d, times) == IF times = 0 THEN d ELSE 2 * C20_Doubled(d, times - 1)

C20_ExponentialBackoff ==
    (mode = "strategies" /\ pc = "done" /\ fin.fn = "next_delay"
        /\ fin.strategy.kind = "ExponentialBackoffDelayStrategy") =>
        LET d == fin.strategy.initial_delay IN
        /\ fin.attempts >= 1 => fout.value = C20_Doubled(d, fin.attempts - 1)
        /\ fin.attempts <= 0 => fout.value = 0
        /\ fin.attempts = 1 => fout.value = d
        /\ fin.attempts = 2 => fout.value = 2 * d
        /\ fin.attempts = 3 => fout.value = 4 * d
        /\ fin.attempts = 4 => fout.value = 8 * d
        /\ fin.attempts = 10 => fout.value = 512 * d

C20_Witness ==
    /\ mode = "strategies"
    /\ pc = "done"
    /\ fin.fn = "next_delay"
    /\ fin.strategy = ExponentialBackoffDelayStrategy(2)
    /\ fin.attempts = 10
    /\ fout.value = 1024

(***************************************************************************)
(* C21: FixedDelayStrategy(d).next_delay(n) is d for every attempt count   *)
(* n, zero included, and NoDelayStrategy().next_delay(n) is zero for       *)
(* every n.                                                                *)
(***************************************************************************)
C21_FixedDelay ==
    (mode = "strategies" /\ pc = "done" /\ fin.fn = "next_delay") =>
        /\ fin.strategy.kind = "FixedDelayStrategy" => fout.value = fin.strategy.delay
        /\ fin.strategy = FixedDelayStrategy(10) => fout.value = 10
        /\ fin.strategy = NoDelayStrategy => fout.value = 0

C21_Witness ==
    /\ mode = "strategies"
    /\ pc = "done"
    /\ fin.fn = "next_delay"
    /\ fin.strategy = FixedDelayStrategy(10)
    /\ fin.attempts = 0
    /\ fout.value = 10

(***************************************************************************)
(* C22: a Retryer built with only default values never ends a call with    *)
(* GaveUpError or with the operation's error: should_suppress is true for  *)
(* every error and should_continue true for every (attempts, elapsed), so  *)
(* after any number of failed attempts another attempt is made, and the    *)
(* call returns the first value, whatever it is, the operation returns.    *)
(***************************************************************************)
C22_DefaultsNeverGiveUp ==
    (mode = "retry" /\ retryer = DefaultRetryer) =>
        /\ \A e \in Errors : should_suppress(retryer.error_strategy, e)
        /\ \A t \in ElapsedTimes :
              should_continue(retryer.stop_strategy, call.attempts, t)
        /\ call.status \in {"running", "returned"}
        /\ call.attempts = function.called
        /\ call.status = "running" =>
              /\ hist.fails = function.called
              /\ hist.ok_at = 0
              /\ function.called > 0 => hist.last.kind = "raise"
              /\ call.attempts < MaxAttempts => ENABLED RetryerCallIteration
        /\ call.status = "returned" =>
              /\ hist.last = returned(call.result)
              /\ hist.ok_at = function.called
              /\ hist.fails = function.called - 1
              /\ hist.error_at \in {0, 1}

C22_Witness ==
    /\ mode = "retry"
    /\ retryer = DefaultRetryer
    /\ function.kind = "any"
    /\ call.status = "returned"
    /\ call.result = 0
    /\ hist.fails = 6
    /\ call.attempts = 7

(***************************************************************************)
(* C23: a Retryer holds no state between calls: each call counts its own   *)
(* attempts from zero, so two calls on one Retryer, one after the other    *)
(* or interleaved, each see the attempt counts 1, 2, 3, ... of their own   *)
(* operation only and end as they would alone.                             *)
(***************************************************************************)
C23_AsAlone(i) ==
    LET c == call[i]
        f == function[i]
        h == hist[i]
    IN  /\ c.attempts = f.called
        /\ c.stop_calls = h.fails
        /\ c.stop_arg = (IF h.fails = 0 THEN 0
                         ELSE IF c.status = "returned" THEN c.attempts - 1
                         ELSE c.attempts)
        /\ c.sleeps = [j \in 1..Len(c.sleeps) |-> next_delay(retryer.delay_strategy, j)]
        /\ Len(c.sleeps) = (IF c.status = "gave_up" THEN h.fails - 1 ELSE h.fails)
        /\ c.status # "raised"
        /\ c.status = "gave_up" =>
              /\ retryer.stop_strategy.kind = "MaxRetriesStopStrategy"
              /\ c.attempts = retryer.stop_strategy.max_retries + 1
              /\ h.fails = c.attempts
        /\ f.kind = "Counter" =>
              (f.called > 0 => c.status = "returned" /\ c.result = 0 /\ c.attempts = 1)
        /\ f.kind = "FailNTimesThenReturn" =>
              /\ c.status = "running" => f.called < f.calls_until_success
              /\ c.status = "returned" =>
                    c.attempts = f.calls_until_success /\ c.result = f.returnval
              /\ c.status = "gave_up" => c.attempts < f.calls_until_success

C23_CallsIndependent ==
    /\ [](mode = "calls" => C23_AsAlone(1) /\ C23_AsAlone(2))
    /\ [][mode = "calls" => retryer' = retryer]_vars

C23_Witness ==
    /\ mode = "calls"
    /\ retryer = backup_retryer(2)
    /\ function[1].kind = "FailNTimesThenReturn"
    /\ function[2].kind = "FailNTimesThenReturn"
    /\ call[1].status = "running"
    /\ call[1].attempts = 2
    /\ call[1].sleeps = <<1, 2>>
    /\ call[2].status = "running"
    /\ call[2].attempts = 1
    /\ call[2].sleeps = <<1>>

(***************************************************************************)
(* C24: a method decorated with require_session (list_activities,          *)
(* get_activity_summary, get_activity_details, get_activity_gpx,           *)
(* get_activity_tcx, upload_activity) that is called while the client has  *)
(* no session, before connect or after disconnect, raises the              *)
(* not-connected error, sends no remote request and leaves the client      *)
(* without a session.                                                      *)
(***************************************************************************)
C24_Guarded ==
    {"list_activities", "get_activity_summary", "get_activity_details",
     "get_activity_gpx", "get_activity_tcx", "upload_activity"}

C24_NoSessionNoRequest ==
    (mode = "client" /\ fin.fn \in C24_Guarded /\ fin.session = None)
        => /\ fout = raised(NotConnectedError)
           /\ client.requests = fin.requests
           /\ client.session = None

\* list_activities called after a connect and a disconnect
C24_Witness ==
    /\ mode = "client"
    /\ fin.fn = "list_activities"
    /\ fin.session = None
    /\ client.opened = 1
    /\ client.closed = 1
    /\ fout = raised(NotConnectedError)

(***************************************************************************)
(* C25: used as a context manager, GarminClient connects on entry, so the  *)
(* block runs only with an authenticated session; leaving the block,       *)
(* completed or failed with an error, disconnects: the session the block   *)
(* used is closed and the client has none; a disconnect of a client        *)
(* without a session changes nothing.                                      *)
(***************************************************************************)
C25_ContextManager ==
    mode = "client" =>
        /\ pc = "block" =>
              /\ client.session # None
              /\ client.session.authenticated
        /\ (fin.fn = "__enter__" /\ fout.kind = "return") =>
              /\ pc = "block"
              /\ client.session = [new_http_session EXCEPT !.authenticated = TRUE]
              /\ client.requests > fin.requests
        /\ fin.fn = "__exit__" =>
              /\ fin.session # None
              /\ client.session = None
              /\ client.closed = fin.closed + 1
              /\ pc = "out"
        /\ (fin.fn = "disconnect" /\ fin.session = None) =>
              /\ client.session = None
              /\ client.closed = fin.closed
              /\ client.requests = fin.requests

\* a block that failed with an error has been left
C25_Witness ==
    /\ mode = "client"
    /\ fin.fn = "__exit__"
    /\ fout = raised(RemoteError)
    /\ client.session = None
    /\ client.opened = 1
    /\ client.closed = 1

(***************************************************************************)
(* C30: every remote operation of GarminClient, get_activity_fit and       *)
(* get_original_activity included, checks for a session first and raises   *)
(* the not-connected error when it is invoked before connect() or after    *)
(* disconnect().                                                           *)
(***************************************************************************)
C30_EveryOperationChecksSession ==
    (mode = "client" /\ fin.fn \in RemoteOperations /\ fin.session = None)
        => fout = raised(NotConnectedError)

\* the operations without the decorator meet the absent session unchecked
C30_UndecoratedFailsOtherwise ==
    (mode = "client" /\ fin.fn \in RemoteOperations \ decorated /\ fin.session = None)
        => /\ fout = raised(AttributeError)
           /\ client.requests = fin.requests

C30_Witness ==
    /\ mode = "client"
    /\ fin.fn = "get_activity_fit"
    /\ fin.session = None
    /\ client.closed = 1
    /\ fout = raised(AttributeError)

(***************************************************************************)
(* C26: with from_date and/or to_date given, a missing activity is kept    *)
(* for download exactly when its start date d satisfies                    *)
(* from_date <= d <= to_date, both bounds inclusive and an absent bound    *)
(* unconstrained; with neither given every missing activity is kept.       *)
(* Dates are compared here by their number yyyymmdd.                       *)
(***************************************************************************)
C26_Day(d) == d.year * 10000 + d.month * 100 + d.day

C26_Within(from_date, to_date, start) ==
    /\ from_date # None => C26_Day(from_date) <= C26_Day(date(start))
    /\ to_date # None => C26_Day(date(start)) <= C26_Day(to_date)

C26_DateWindow ==
    (mode = "window" /\ pc = "done") =>
        /\ fout = {x \in fin.missing_activities :
                     C26_Within(fin.from_date, fin.to_date, x[2])}
        /\ (fin.from_date = None /\ fin.to_date = None) => fout = fin.missing_activities

\* a window of two days: the activities that start on its first and on its
\* last day are kept, the two that start later are not
C26_Witness ==
    /\ mode = "window"
    /\ pc = "done"
    /\ fin.from_date = date(t1)
    /\ fin.to_date = date(t2)
    /\ fin.missing_activities = WindowActivities
    /\ fout = {a1, a2}

\* a run downloads no activity outside its window
C26_RunStaysInWindow ==
    (mode = "backup" /\ pc # "idle") =>
        \A a \in run.attempted : C26_Within(run.from_date, run.to_date, a[2])

(***************************************************************************)
(* C27: within one Retryer.call the attempt count equals the number of     *)
(* invocations of the operation, and it is the count given to the stop     *)
(* and the delay strategy; the stop strategy is consulted once after each  *)
(* failed attempt and never after a success or an unsuppressed error; the  *)
(* delay strategy is asked only after the stop strategy answered continue; *)
(* the k-th sleep lasts next_delay(k) and separates attempt k from attempt *)
(* k+1, with no sleep before the first attempt or after the last.          *)
(***************************************************************************)
C27_Over == call.status # "running"

\* the attempts that were followed by a consultation of the stop strategy
C27_Consulted ==
    IF call.status \in {"returned", "raised"} THEN call.attempts - 1 ELSE call.attempts

C27_AttemptCounts ==
    mode = "retry" =>
        /\ call.attempts = function.called
        /\ call.stop_calls = C27_Consulted
        /\ call.stop_arg = C27_Consulted
        /\ call.status = "returned" => call.stop_calls = hist.fails
        /\ call.status = "raised" => call.stop_calls = hist.fails - 1
        /\ call.status \in {"running", "gave_up"} => call.stop_calls = hist.fails
        /\ Len(call.sleeps) = IF C27_Over THEN call.attempts - 1 ELSE call.attempts
        /\ call.delay_arg = Len(call.sleeps)
        /\ \A k \in 1..Len(call.sleeps) :
              call.sleeps[k] = next_delay(retryer.delay_strategy, k)
        /\ call.status = "gave_up" =>
              ~should_continue(retryer.stop_strategy, call.attempts, 0)
        /\ \A k \in 1..Len(call.sleeps) :
              should_continue(retryer.stop_strategy, k, 0)

\* three failed attempts with sleeps of 1 and 2 seconds between them, and
\* no sleep after the third
C27_Witness ==
    /\ mode = "retry"
    /\ call.status = "gave_up"
    /\ call.attempts = 3
    /\ function.called = 3
    /\ call.stop_calls = 3
    /\ call.sleeps = <<1, 2>>

(***************************************************************************)
(* C28: an incremental backup run reads the directory listing and the      *)
(* ledger exactly once, after the remote inventory has been listed and     *)
(* before the run writes its first file or ledger line; the activities     *)
(* the run processes are those selected from what was read, and files and  *)
(* ledger lines written during the run do not change them.                 *)
(***************************************************************************)
\* the activities with a name that was neither listed nor recorded when read
C28_MissingWhenRead ==
    {a \in activities : \E f \in formats : export_filename(a, f) \notin run.snapshot}

C28_Processed == run.todo \cup run.attempted

C28_ReadOnce ==
    mode = "backup" =>
        /\ pc \in {"idle", "list", "done", "raised"} => run.reads = 0
        /\ pc \in {"next", "fetch"} =>
              /\ run.reads = 1
              /\ missing = C28_MissingWhenRead
              /\ C28_Processed =
                    filter_missing_activities(run.from_date, run.to_date,
                                              C28_MissingWhenRead)

C28_SnapshotBeforeWrites ==
    /\ []C28_ReadOnce
    /\ [][mode = "backup" =>
             /\ run'.reads > run.reads =>
                   /\ pc = "list"
                   /\ call.status = "returned"
                   /\ activities' = call.result
                   /\ run'.snapshot = files \cup LedgerNames
                   /\ files' = files
                   /\ ledger' = ledger
             /\ (pc = "list" /\ pc' = "list") => (files' = files /\ ledger' = ledger)
             /\ (files' # files \/ ledger' # ledger) =>
                   /\ run.reads = 1
                   /\ pc' \in {"next", "fetch"} =>   \* the run goes on
                         /\ run'.reads = 1
                         /\ run'.snapshot = run.snapshot
                         /\ missing' = missing
                         /\ C28_Processed' = C28_Processed]_vars

\* the run has written a file of one activity and has another still to do
C28_Witness ==
    /\ mode = "backup"
    /\ pc = "next"
    /\ run.reads = 1
    /\ run.attempted = {a2}
    /\ run.todo = {a1}
    /\ \E f \in formats :
          /\ export_filename(a2, f) \in files
          /\ export_filename(a2, f) \notin run.snapshot

(***************************************************************************)
(* C29: the ledger is not deduplicated.  Whenever a download has fetched   *)
(* a format that is not available, it appends the canonical name to the    *)
(* ledger, also when the ledger lists that name already, so a name can     *)
(* occur several times; and need_backup gives the same result for the      *)
(* ledger with the duplicate line as it gave without it.                   *)
(***************************************************************************)
\* the fetch for the format at hand has returned None
C29_NotAvailable ==
    /\ pc = "fetch"
    /\ call.status = "returned"
    /\ call.result = None
    /\ download_order[dl.pos] \in ledger_block

C29_Name == export_filename(dl.activity, download_order[dl.pos])

C29_LedgerNotDeduplicated ==
    [][mode = "backup" =>
          /\ C29_NotAvailable =>
                /\ ledger' = Append(ledger, ledger_line(C29_Name))
                /\ C29_Name \in LedgerNames =>
                      /\ Len(ledger') = Len(ledger) + 1
                      /\ LedgerNames' = LedgerNames
                      /\ need_backup(Inventory, formats)' = need_backup(Inventory, formats)
          /\ ledger' # ledger => C29_NotAvailable]_vars

\* a download has appended a name that the ledger listed already
C29_Witness ==
    /\ mode = "backup"
    /\ dl # None
    /\ dl.none # {}
    /\ Len(ledger) = dl.ledger0 + 1
    /\ Len(ledger) >= 2
    /\ \E i \in 1..(Len(ledger) - 1) : ledger[i] = ledger[Len(ledger)]

(***************************************************************************)
(* C31: when the upload is answered with 202 and neither success nor       *)
(* failure, upload_activity polls for completion until a poll returns an   *)
(* activity id; a poll that reports still-processing (None) is followed,   *)
(* after an exponentially growing delay of 1, 2, 4, ... seconds, by the    *)
(* next poll; at most 7 polls are made, after which GaveUpError is raised; *)
(* an error raised by a poll ends the upload at once with that error.      *)
(***************************************************************************)
C31_Polling == mode = "upload" /\ fin.response = [kind |-> "accepted"]

C31_UploadPolling ==
    C31_Polling =>
        /\ call.attempts = function.called
        /\ call.attempts <= 7
        /\ \A k \in 1..Len(call.sleeps) : call.sleeps[k] = 2 ^ (k - 1)
        /\ Len(call.sleeps) = IF call.status = "running"
                              THEN call.attempts ELSE call.attempts - 1
        /\ call.status = "running" =>
              /\ pc = "poll"
              /\ hist.fails = call.attempts
              /\ hist.error_at = 0
              /\ call.attempts > 0 => hist.last = returned(None)
        /\ call.status = "returned" =>
              /\ call.result \in UploadedIds
              /\ hist.last = returned(call.result)
              /\ hist.fails = call.attempts - 1
              /\ hist.error_at = 0
        /\ call.status = "raised" =>
              /\ call.result = HTTPError
              /\ hist.error_at = call.attempts
        /\ call.status = "gave_up" =>
              /\ call.attempts = 7
              /\ call.result.type = "GaveUpError"
              /\ hist.fails = 7
              /\ hist.error_at = 0
        /\ pc \in {"metadata", "done"} =>
              /\ call.status = "returned"
              /\ fin.activity_id = call.result
        /\ pc = "done" => fout = returned(call.result)
        /\ pc = "raised" =>
              \/ call.status \in {"raised", "gave_up"} /\ fout = raised(call.result)
              \/ call.status = "returned" /\ fin.data /\ fout = raised(UploadError)

\* seven polls reported still-processing: the upload ends with GaveUpError
C31_Witness ==
    /\ C31_Polling
    /\ pc = "raised"
    /\ call.attempts = 7
    /\ call.sleeps = <<1, 2, 4, 8, 16, 32>>
    /\ fout.kind = "raise"
    /\ fout.error.type = "GaveUpError"

(***************************************************************************)
(* C32: in a call with ExponentialBackoffDelayStrategy(initial_delay = 1   *)
(* second) and MaxRetriesStopStrategy(6) the delays slept between the      *)
(* first attempt and the final outcome sum to at most 64 seconds (2**6),   *)
(* whatever the operation does.                                            *)
(***************************************************************************)
RECURSIVE C32_Sum(_)
C32_Sum(s) == IF s = <<>> THEN 0 ELSE s[1] + C32_Sum(Tail(s))

C32_TotalDelay ==
    mode = "retry" =>
        /\ C32_Sum(call.sleeps) <= 64
        /\ Len(call.sleeps) <= 6

\* seven failed attempts, with 1 + 2 + 4 + 8 + 16 + 32 seconds slept
C32_Witness ==
    /\ mode = "retry"
    /\ retryer.stop_strategy = MaxRetriesStopStrategy(6)
    /\ call.status = "gave_up"
    /\ call.attempts = 7
    /\ C32_Sum(call.sleeps) = 63

(***************************************************************************)
(* C33: _extract_auth_ticket_url returns no ticket URL for a login         *)
(* response whose responseStatus type is INVALID_USERNAME_PASSWORD: such a *)
(* response ends in an authentication-failure error, also when it carries  *)
(* a serviceURL and a serviceTicketId.                                     *)
(***************************************************************************)
C33_InvalidCredentialsRaise ==
    (mode = "ticket" /\ pc = "done"
        /\ fin.responseStatus.type = "INVALID_USERNAME_PASSWORD")
        => fout.kind = "raise"

\* what the function does instead: the type of the status is of no effect
C33_StatusTypeIgnored ==
    (mode = "ticket" /\ pc = "done") =>
        \A type \in ResponseStatusTypes :
            fout = _extract_auth_ticket_url([fin EXCEPT !.responseStatus.type = type])

C33_Witness ==
    /\ mode = "ticket"
    /\ pc = "done"
    /\ fin.responseStatus.type = "INVALID_USERNAME_PASSWORD"
    /\ fout = returned("https://connect.garmin.com/modern?ticket=ST-1")

(***************************************************************************)
(* C34 as stated: when download returns without raising, every requested   *)
(* format of the activity has its canonical name as a file of the backup   *)
(* directory or a line of the ledger, and a following need_backup with the *)
(* same formats does not return the activity.                              *)
(***************************************************************************)
C34_Returned == mode = "backup" /\ dl # None /\ dl.status = "returned"

C35_OnlyGaveUpSurfaces ==
    (mode = "backup" /\ pc \in {"list", "fetch"}) =>
        /\ retryer.error_strategy = SuppressAllErrorStrategy
        /\ retryer.stop_strategy = MaxRetriesStopStrategy(run.max_retries)
        /\ call.status # "raised"
        /\ call.attempts <= run.max_retries + 1
        /\ hist.last.kind = "raise" =>
              /\ hist.fails = call.attempts
              /\ call.status = IF call.attempts <= run.max_retries
                               THEN "running" ELSE "gave_up"
        /\ call.status = "gave_up" =>
              /\ call.attempts = run.max_retries + 1
              /\ call.result.type = "GaveUpError"
              /\ hist.fails = call.attempts
              /\ hist.error = RemoteError
        /\ call.status = "returned" => hist.last = returned(call.result)

\* a fetch that raised twice under max_retries = 1
C35_Witness ==
    /\ mode = "backup"
    /\ pc = "fetch"
    /\ run.max_retries = 1
    /\ call.status = "gave_up"
    /\ call.attempts = 2
    /\ hist.last = raised(RemoteError)
    /\ call.result.type = "GaveUpError"

(***************************************************************************)
(* C36: a Retryer with error_strategy None and a Retryer with an error     *)
(* strategy whose should_suppress is false for every error behave alike:   *)
(* for every operation behaviour, stop strategy and delay strategy the two *)
(* make the same number of invocations, sleep the same delays and end with *)
(* the same outcome.                                                       *)
(***************************************************************************)
C36_SameBehaviour ==
    mode = "equiv" =>
        /\ call[1].attempts = call[2].attempts
        /\ call[1].attempts = function.called
        /\ call[1].sleeps = call[2].sleeps
        /\ call[1].status = call[2].status
        /\ call[1].status # "running" => call[1].result = call[2].result
        /\ call[1] = call[2]

\* both calls end with the operation's error at the second attempt, after a
\* first attempt that returned an unsatisfactory value and a sleep
C36_Witness ==
    /\ mode = "equiv"
    /\ call[1].status = "raised"
    /\ call[2].status = "raised"
    /\ call[1].attempts = 2
    /\ call[2].result = IOError
    /\ call[1].sleeps = <<10>>
    /\ call[2].sleeps = <<10>>

(***************************************************************************)
(* C37: when connect() fails during authentication, also when it is        *)
(* entered through the with-statement, the client is left disconnected:    *)
(* its session is absent and the HTTP session that was opened has been     *)
(* closed; in every reachable state a present session is one whose         *)
(* authentication completed.                                               *)
(***************************************************************************)
C37_FailedConnectDisconnects ==
    mode = "client" =>
        /\ (fin.fn \in {"connect", "__enter__"} /\ fout.kind = "raise") =>
              /\ client.session = None
              /\ client.closed = fin.closed + 1
        /\ client.session # None => client.session.authenticated

\* what connect leaves behind instead: the session it opened, not signed in
\* and not closed, and no with-block to close it
C37_FailedConnectKeepsSession ==
    (mode = "client" /\ fin.fn \in {"connect", "__enter__"} /\ fout.kind = "raise") =>
        /\ client.session = new_http_session
        /\ client.closed = fin.closed
        /\ pc = "out"

\* after a failed entry of the with-statement a session-guarded method is
\* let through and sends its request over the session that is not signed in
C37_Witness ==
    /\ mode = "client"
    /\ fin.fn = "list_activities"
    /\ fin.session = new_http_session
    /\ client.opened = 1
    /\ client.closed = 0
    /\ client.requests = fin.requests + 1

(***************************************************************************)
(* C38: every incremental backup run over a finite inventory terminates,   *)
(* given that each single remote invocation returns or raises: each        *)
(* retryer.call ends within max_retries + 1 attempts, each activity        *)
(* selected for backup is passed to download at most once, and the run     *)
(* ends either normally or by raising.                                     *)
(***************************************************************************)
C38_Running == mode = "backup" /\ pc \in {"list", "next", "fetch"}

C38_Ended == mode = "backup" /\ pc \in {"done", "raised"}

C38_RunTerminates ==
    /\ []((mode = "backup" /\ pc \in {"list", "fetch"}) =>
             /\ call.attempts <= run.max_retries + 1
             /\ call.attempts = run.max_retries + 1 => call.status # "running")
    /\ [][(mode = "backup" /\ pc = "next" /\ pc' = "fetch") =>
             /\ dl'.activity \in run.todo \ run.attempted
             /\ run'.attempted = run.attempted \cup {dl'.activity}
             /\ run'.todo = run.todo \ {dl'.activity}]_vars
    /\ [][(mode = "backup" /\ pc \in {"next", "fetch"} /\ pc' \in {"next", "fetch"}) =>
             /\ run.attempted \subseteq run'.attempted
             /\ run'.todo \subseteq run.todo]_vars
    /\ C38_Running ~> C38_Ended

\* a run that ended normally after it wrote two files and a ledger line
C38_Witness ==
    /\ mode = "backup"
    /\ pc = "done"
    /\ run.n = MaxRuns
    /\ formats = {"gpx", "fit"}
    /\ Len(ledger) = 1
    /\ Cardinality(files \ {not_found_file}) = 3

=============================================================================
